---- MODULE Spec2Model ----
(***************************************************************************)
(* State-machine model of the Deriv trading engine (src/bot_engine.py),   *)
(* its dashboard entry points (src/app.py) and the strategy evaluator of  *)
(* src/handlers/strategy_handler.py.                                      *)
(*                                                                         *)
(* Conventions                                                             *)
(*  - Every handler is a pure operator over an engine record `e` (the     *)
(*    fields of TradingBotEngine that the handler reads or writes); an    *)
(*    action applies the operator to the current variables and commits    *)
(*    the result.  e.sent collects the frames the handler wrote to the    *)
(*    socket, e.opens the calls it made to _execute_trade, e.raised is    *)
(*    set when the Python code raises and the handler is abandoned.       *)
(*  - Python None is the integer None (-1) for numbers, "None" for        *)
(*    strings and NoCandle for candles.  A dict key that is absent is     *)
(*    Missing (-2).                                                        *)
(*  - Technical indicators (EMA, RSI, ATR, patterns, SNR zones) are not   *)
(*    recomputed: their verdict is an input `o` of the evaluation.        *)
(*  - The wall clock `now` and the broker's tick epoch are the same       *)
(*    clock.                                                               *)
(***************************************************************************)
EXTENDS Integers, Sequences, FiniteSets, TLC

\* ------------------------------------------------------------------ bounds
\* Number of clock advances in one behaviour.
MaxAdvances == 2
\* Number of contracts the broker opens in one behaviour.
MaxContracts == 3
\* Longest candle batch the broker sends.
MaxBatch == 2
\* Longest candle ring a behaviour builds.
MaxRing == 3

\* ------------------------------------------------------- program constants
None == 0 - 1
Missing == 0 - 2
DaySecs == 86400
HourSecs == 3600
MinuteSecs == 60
CloseCooldown == 30
GhostGrace == 60

Symbols == {"R_10", "R_25"}
Strategies == {"strategy_1", "strategy_2", "strategy_3", "strategy_4",
               "strategy_5", "strategy_6", "strategy_7"}

\* TradingBotEngine.STRATEGY_MAP: the granularities of each strategy.
STRATEGY_MAP ==
    [ strategy_1 |-> [htf_granularity |-> 86400, ltf_granularity |-> 3600,
                      bias_granularity |-> None, expiry_type |-> "eod", duration |-> None],
      strategy_2 |-> [htf_granularity |-> 3600, ltf_granularity |-> 180,
                      bias_granularity |-> None, expiry_type |-> "fixed", duration |-> 3600],
      strategy_3 |-> [htf_granularity |-> 900, ltf_granularity |-> 60,
                      bias_granularity |-> None, expiry_type |-> "fixed", duration |-> 900],
      strategy_4 |-> [htf_granularity |-> 300, ltf_granularity |-> 60,
                      bias_granularity |-> None, expiry_type |-> "fixed", duration |-> 300],
      strategy_5 |-> [htf_granularity |-> 3600, ltf_granularity |-> 60,
                      bias_granularity |-> 900, expiry_type |-> "dynamic", duration |-> None],
      strategy_6 |-> [htf_granularity |-> 3600, ltf_granularity |-> 60,
                      bias_granularity |-> 14400, expiry_type |-> "dynamic", duration |-> None],
      strategy_7 |-> [htf_granularity |-> 3600, ltf_granularity |-> 60,
                      bias_granularity |-> None, expiry_type |-> "dynamic", duration |-> None] ]

\* ----------------------------------------------------------------- helpers
\* Python truthiness of a number that may be None or absent.
Truthy(x) == x # None /\ x # Missing /\ x # 0

\* dict.get(key): an absent key reads as None.
Get(x) == IF x = Missing THEN None ELSE x

Max(a, b) == IF a >= b THEN a ELSE b
Min(a, b) == IF a <= b THEN a ELSE b

\* floor(t / g) * g
Floor(t, g) == (t \div g) * g

\* datetime.fromtimestamp(t, tz=utc).date(), as a day number.
DateOf(t) == t \div DaySecs

\* datetime.now(timezone.utc).hour
HourOf(t) == (t % DaySecs) \div HourSecs

Last(s) == s[Len(s)]

\* An empty dict.
EmptyMap == [k \in {} |-> None]

NoCandle == [epoch |-> None, open |-> None, high |-> None, low |-> None, close |-> None]
Candle(ep, o, h, l, c) == [epoch |-> ep, open |-> o, high |-> h, low |-> l, close |-> c]

\* list.append(x) followed by `if len(list) > cap: list.pop(0)`.
AppendCapped(s, x, cap) ==
    LET t == Append(s, x) IN IF Len(t) > cap THEN Tail(t) ELSE t

\* --------------------------------------------------------------- variables
VARIABLES
    config,                  \* TradingBotEngine.config
    file_config,             \* config.json as app.py reads and writes it
    is_running,              \* TradingBotEngine.is_running
    sock_connected,          \* ws.sock.connected
    stop_event,              \* TradingBotEngine.stop_event
    ws_thread_alive,         \* ws_thread.is_alive()
    account_balance,
    daily_start_balance,
    last_balance_reset_date,
    contracts,               \* TradingBotEngine.contracts, in insertion order
    symbol_data,             \* TradingBotEngine.symbol_data
    screener_data,           \* TradingBotEngine.screener_data
    strat7_cache,            \* TradingBotEngine.strat7_cache
    stats,                   \* realized-trade counters of the engine
    evaluator,               \* which evaluator the tick path calls
    now,                     \* wall clock, seconds
    advances,                \* clock advances so far
    broker,                  \* contracts the broker holds, by contract id
    ws_pc,                   \* position of the socket thread in _run_ws and _handle_tick
    sent,                    \* frames written to the socket by the last step
    opens,                   \* calls of _execute_trade made by the last step
    last_op,                 \* the operation the last step performed
    open_log,                \* every (symbol, LTF epoch) that produced an Open
    tpsl_log,                \* per contract, its TP/SL sells: the last time, the least gap
    breach_day,              \* day on which an evaluation saw the loss cap breached
    candle_cache,            \* ta_handler._CANDLE_CACHE
    fetch_log,               \* every (symbol, granularity, period) requested from the broker
    evals,                   \* calls of the Strategy Evaluator made by the last step
    open_count               \* per (symbol, UTC hour), the calls of _execute_trade so far

engine_vars == <<config, is_running, sock_connected, account_balance,
                 daily_start_balance, last_balance_reset_date, contracts,
                 symbol_data, screener_data, strat7_cache, stats>>

vars == <<config, file_config, is_running, sock_connected, stop_event,
          ws_thread_alive, account_balance, daily_start_balance,
          last_balance_reset_date, contracts, symbol_data, screener_data,
          strat7_cache, stats, evaluator, now, advances, broker, ws_pc, sent,
          opens, last_op, open_log, tpsl_log, breach_day, candle_cache,
          fetch_log, evals, open_count>>

\* The engine as one record: what a handler starts from.
Cur ==
    [ config |-> config, is_running |-> is_running,
      sock_connected |-> sock_connected,
      account_balance |-> account_balance,
      daily_start_balance |-> daily_start_balance,
      last_balance_reset_date |-> last_balance_reset_date,
      contracts |-> contracts, symbol_data |-> symbol_data,
      screener_data |-> screener_data, strat7_cache |-> strat7_cache,
      stats |-> stats, stop_event |-> stop_event,
      ws_thread_alive |-> ws_thread_alive,
      evaluator |-> evaluator, now |-> now,
      candle_cache |-> candle_cache, fetch_log |-> fetch_log,
      sent |-> << >>, opens |-> << >>, tpsl |-> << >>, evals |-> << >>,
      breach |-> FALSE, raised |-> FALSE ]

\* ------------------------------------------------------------------ frames
Frame(t, sym, cid, arg) == [t |-> t, symbol |-> sym, cid |-> cid, arg |-> arg]
SellFrame(cid) == Frame("sell", "None", cid, None)
BuyFrame(sym, ctype, duration) == Frame(ctype, sym, None, duration)
TicksFrame(sym) == Frame("ticks", sym, None, None)
ForgetFrame(sub) == Frame("forget", "None", None, sub)
HistoryFrame(sym, gran) == Frame("ticks_history", sym, None, gran)
SimpleFrame(t) == Frame(t, "None", None, None)

IsBuy(f) == f.t \in {"CALL", "PUT", "MULTUP", "MULTDOWN"}

\* ws.send(frame)
Send(e, f) == [e EXCEPT !.sent = Append(@, f)]

\* ------------------------------------------------------- the contracts dict
Has(cs, cid) == \E i \in 1..Len(cs) : cs[i].id = cid
Idx(cs, cid) == CHOOSE i \in 1..Len(cs) : cs[i].id = cid
At(cs, cid) == cs[Idx(cs, cid)]
\* contracts[cid] = c : an existing key keeps its place, a new one goes last.
Put(cs, c) ==
    IF Has(cs, c.id) THEN [cs EXCEPT ![Idx(cs, c.id)] = c] ELSE Append(cs, c)
\* The dict with the `del` left out.
Kept(cs, cid) == cs
\* del contracts[cid]
Del(cs, cid) == SelectSeq(cs, LAMBDA c : c.id # cid)

SideOf(ctype) == IF ctype \in {"CALL", "MULTUP"} THEN "long" ELSE "short"

\* TradingBotEngine._close_contract
_close_contract(e, cid) ==
    IF e.sock_connected
    THEN LET cs == IF Has(e.contracts, cid)
                   THEN [e.contracts EXCEPT ![Idx(e.contracts, cid)].last_close_attempt = e.now]
                   ELSE e.contracts
         IN Send([e EXCEPT !.contracts = cs], SellFrame(cid))
    ELSE e

\* A sell issued at one of the TP/SL sites: _close_contract plus a note of it.
CloseForTpSl(e, cid) ==
    LET r == _close_contract(e, cid)
    IN IF e.sock_connected THEN [r EXCEPT !.tpsl = Append(@, cid)] ELSE r

\* TradingBotEngine._calculate_target_prices
_calculate_target_prices(e, cid) ==
    LET c == At(e.contracts, cid)
        entry == c.entry_price
        cfg == e.config
        tp_val == cfg.tp_value
        sl_val == cfg.sl_value
        stake == c.stake
        tp_usd == IF cfg.use_fixed_balance THEN tp_val ELSE (stake * tp_val) \div 100
        sl_usd == IF cfg.use_fixed_balance THEN sl_val ELSE (stake * sl_val) \div 100
        long == c.side = "long"
        i == Idx(e.contracts, cid)
        set(tp, sl) ==
            [e EXCEPT !.contracts[i].tp_price = IF tp = Missing THEN @ ELSE tp,
                      !.contracts[i].sl_price = IF sl = Missing THEN @ ELSE sl]
    IN IF ~Truthy(entry) THEN e
       ELSE IF ~(tp_val > 0 \/ sl_val > 0) THEN e
       ELSE IF Truthy(c.multiplier)
       THEN IF cfg.active_strategy = "strategy_5" /\ c.symbol \in DOMAIN e.screener_data
            THEN \* metrics.get('tp_pips', 0): the screener never writes the key
                 set(entry, entry)
            ELSE LET denom == c.multiplier * stake
                 IN IF denom = 0 THEN e
                    ELSE IF long
                    THEN set(IF tp_val > 0 THEN entry + (entry * tp_usd) \div denom ELSE Missing,
                             IF sl_val > 0 THEN entry - (entry * sl_usd) \div denom ELSE Missing)
                    ELSE set(IF tp_val > 0 THEN entry - (entry * tp_usd) \div denom ELSE Missing,
                             IF sl_val > 0 THEN entry + (entry * sl_usd) \div denom ELSE Missing)
       ELSE IF long
       THEN set(IF tp_val > 0 THEN (entry * 101) \div 100 ELSE Missing,
                IF sl_val > 0 THEN (entry * 99) \div 100 ELSE Missing)
       ELSE set(IF tp_val > 0 THEN (entry * 99) \div 100 ELSE Missing,
                IF sl_val > 0 THEN (entry * 101) \div 100 ELSE Missing)

\* on_message, msg_type == 'buy': the contract entry a BuyAck creates.
\* m = [contract_id, buy_price, symbol, contract_type, multiplier]
on_buy(e, m) ==
    LET c == [ id |-> m.contract_id, symbol |-> m.symbol,
               side |-> SideOf(m.contract_type),
               contract_type |-> m.contract_type, stake |-> m.buy_price,
               pnl |-> 0, is_closing |-> FALSE, status |-> "Opened",
               multiplier |-> m.multiplier, tp_price |-> None,
               sl_price |-> None, entry_price |-> None,
               entry_snapshot |-> 0, purchase_time |-> Missing,
               expiry_time |-> Missing, last_close_attempt |-> Missing,
               is_freeride |-> Missing ]
        e1 == [e EXCEPT !.contracts = Put(@, c)]
    IN IF m.symbol \in DOMAIN e.symbol_data /\ Truthy(e.symbol_data[m.symbol].last_tick)
       THEN LET i == Idx(e1.contracts, m.contract_id)
                e2 == [e1 EXCEPT !.contracts[i].entry_price =
                                      e.symbol_data[m.symbol].last_tick]
            IN _calculate_target_prices(e2, m.contract_id)
       ELSE e1

\* ------------------------------------------------------- contract updates
\* profit >= tp_threshold and profit <= sl_threshold of the profit-based
\* TP/SL check (thresholds in USD, or in percent of the stake).
TpHit(cfg, profit, stake) ==
    /\ cfg.tp_enabled /\ cfg.tp_value > 0
    /\ IF cfg.use_fixed_balance THEN profit >= cfg.tp_value
       ELSE profit * 100 >= stake * cfg.tp_value
SlHit(cfg, profit, stake) ==
    /\ cfg.sl_enabled /\ cfg.sl_value > 0
    /\ IF cfg.use_fixed_balance THEN profit <= 0 - cfg.sl_value
       ELSE profit * 100 <= 0 - (stake * cfg.sl_value)

\* The is_sold branch with a loss added to total_trade_loss under its sign.
contract_sold_signed(e, m) ==
    IF ~Has(e.contracts, m.contract_id) THEN e
    ELSE LET profit == m.profit
             st == e.stats
             st1 == IF profit > 0
                    THEN [st EXCEPT !.net_trade_profit = @ + profit,
                                    !.total_trade_profit = @ + profit,
                                    !.wins_count = @ + 1,
                                    !.total_trades_count = @ + 1]
                    ELSE [st EXCEPT !.net_trade_profit = @ + profit,
                                    !.total_trade_loss = @ + profit,
                                    !.losses_count = @ + 1,
                                    !.total_trades_count = @ + 1]
         IN [e EXCEPT !.stats = st1, !.contracts = Del(@, m.contract_id)]

\* _handle_contract_update, is_sold branch: counters, streaks, removal.
contract_sold(e, m) ==
    IF ~Has(e.contracts, m.contract_id) THEN e
    ELSE LET profit == m.profit
             sym == m.underlying
             known == sym \in DOMAIN e.symbol_data
             st == e.stats
             st1 == IF profit > 0
                    THEN [st EXCEPT !.net_trade_profit = @ + profit,
                                    !.total_trade_profit = @ + profit,
                                    !.wins_count = @ + 1,
                                    !.total_trades_count = @ + 1]
                    ELSE [st EXCEPT !.net_trade_profit = @ + profit,
                                    !.total_trade_loss = @ + (IF profit < 0 THEN 0 - profit ELSE profit),
                                    !.losses_count = @ + 1,
                                    !.total_trades_count = @ + 1]
             sd1 == IF ~known THEN e.symbol_data
                    ELSE IF profit > 0
                    THEN [e.symbol_data EXCEPT ![sym].consecutive_wins = @ + 1,
                                               ![sym].consecutive_losses = 0]
                    ELSE [e.symbol_data EXCEPT ![sym].consecutive_losses = @ + 1,
                                               ![sym].consecutive_wins = 0]
         IN [e EXCEPT !.stats = st1, !.symbol_data = sd1,
                      !.contracts = Del(@, m.contract_id)]

\* _handle_contract_update, open-contract branch: the entry is rebuilt from
\* the message, then the force-close and profit TP/SL checks run.
contract_open(e, m) ==
    LET cid == m.contract_id
        had == Has(e.contracts, cid)
        old == At(e.contracts, cid)
        is_closing == IF had THEN old.is_closing ELSE FALSE
        c == [ id |-> cid, symbol |-> m.underlying,
               side |-> SideOf(m.contract_type),
               contract_type |-> m.contract_type,
               entry_price |-> m.entry_tick, pnl |-> m.profit,
               stake |-> m.buy_price, purchase_time |-> m.purchase_time,
               expiry_time |-> m.date_expiry, is_closing |-> is_closing,
               status |-> IF had THEN old.status ELSE "Active",
               multiplier |-> m.multiplier,
               tp_price |-> IF had THEN Get(old.tp_price) ELSE None,
               sl_price |-> IF had THEN Get(old.sl_price) ELSE None,
               entry_snapshot |-> Missing, last_close_attempt |-> Missing,
               is_freeride |-> Missing ]
        e1 == [e EXCEPT !.contracts = Put(@, c)]
        e2 == IF Truthy(m.entry_tick) /\ ~Truthy(c.tp_price)
              THEN _calculate_target_prices(e1, cid) ELSE e1
        i == Idx(e2.contracts, cid)
        closing == [e2 EXCEPT !.contracts[i].is_closing = TRUE]
        cfg == e.config
    IN IF is_closing THEN e2
       ELSE IF /\ cfg.force_close_enabled /\ Truthy(m.purchase_time)
               /\ e.now - m.purchase_time >= cfg.force_close_duration
       THEN _close_contract(closing, cid)
       ELSE IF TpHit(cfg, m.profit, m.buy_price) THEN CloseForTpSl(closing, cid)
       ELSE IF SlHit(cfg, m.profit, m.buy_price) THEN CloseForTpSl(closing, cid)
       ELSE e2

\* TradingBotEngine._handle_contract_update
_handle_contract_update(e, m) ==
    IF m.is_sold THEN contract_sold(e, m) ELSE contract_open(e, m)

\* ------------------------------------------------------- position monitor
\* One pass of the loop body of _monitor_open_contracts for contract cid.
\* o: indicator inputs (ta_ready, atr_exit, div, atr_1h, st_dir, fractal).
monitor_one(e, cid, symbol, price, o) ==
    LET c == At(e.contracts, cid)
        i == Idx(e.contracts, cid)
        cfg == e.config
        long == c.side = "long"
        strat == cfg.active_strategy
        known == symbol \in DOMAIN e.symbol_data
        htf_open == IF known THEN e.symbol_data[symbol].htf_open ELSE None
        entry == Get(c.entry_price)
        pips == IF long THEN price - entry ELSE entry - price
        \* strategy 1 exits
        s1_cross == /\ strat = "strategy_1" /\ Truthy(price) /\ Truthy(htf_open)
                    /\ ((long /\ price < htf_open) \/ (~long /\ price > htf_open))
        s1_atr == /\ strat = "strategy_1" /\ Truthy(price) /\ Truthy(htf_open)
                  /\ o.ta_ready /\ Truthy(entry) /\ o.atr_exit
        \* strategy 5 / 7 exits
        s57 == strat \in {"strategy_5", "strategy_7"} /\ Truthy(price) /\ o.ta_ready
        diverged == (long /\ o.div = 0 - 1) \/ (~long /\ o.div = 1)
        is_mult == c.contract_type \in {"MULTUP", "MULTDOWN"}
        manage == s57 /\ is_mult /\ ~diverged /\ Truthy(entry)
        enter_fr == manage /\ 2 * pips >= 3 * o.atr_1h /\ Get(c.is_freeride) # 1
        trailing == IF o.fractal # None THEN o.fractal
                    ELSE IF long THEN entry + (o.atr_1h * 2) \div 10
                    ELSE entry - (o.atr_1h * 2) \div 10
        e_fr == IF enter_fr
                THEN [e EXCEPT !.contracts[i].sl_price = trailing,
                               !.contracts[i].is_freeride = 1]
                ELSE e
        c_fr == e_fr.contracts[i]
        st_exit == manage /\ Get(c_fr.is_freeride) = 1
                   /\ ((long /\ o.st_dir = 0 - 1) \/ (~long /\ o.st_dir = 1))
        s57_exit == s57 /\ (diverged \/ st_exit)
        \* price-based TP/SL, on the entry as the free-ride step left it
        tp == Get(c_fr.tp_price)
        sl == Get(c_fr.sl_price)
        watch == Truthy(price) /\ (cfg.tp_enabled \/ cfg.sl_enabled)
        price_tp == /\ watch /\ cfg.tp_enabled /\ Truthy(tp)
                    /\ IF long THEN price >= tp ELSE price <= tp
        price_sl == /\ watch /\ cfg.sl_enabled /\ Truthy(sl)
                    /\ IF long THEN price <= sl ELSE price >= sl
        expiry == Get(c.expiry_time)
        ghost == Truthy(expiry) /\ e.now > expiry + GhostGrace
        attempt == Get(c_fr.last_close_attempt)
        purchase == Get(c.purchase_time)
        closing == [e_fr EXCEPT !.contracts[i].is_closing = TRUE]
    IN IF symbol # c.symbol THEN e
       ELSE IF s1_cross \/ s1_atr THEN _close_contract(e, cid)
       ELSE IF s57_exit THEN _close_contract(e_fr, cid)
       ELSE IF price_tp \/ price_sl THEN CloseForTpSl(e_fr, cid)
       ELSE IF ghost THEN [e_fr EXCEPT !.contracts = Del(@, cid)]
       ELSE IF c_fr.is_closing
       THEN IF Truthy(attempt) /\ e.now - attempt > CloseCooldown
            THEN _close_contract(e_fr, cid) ELSE e_fr
       ELSE IF /\ cfg.force_close_enabled /\ Truthy(purchase)
               /\ e.now - purchase >= cfg.force_close_duration
       THEN _close_contract(closing, cid)
       ELSE IF TpHit(cfg, c.pnl, c.stake) THEN CloseForTpSl(closing, cid)
       ELSE IF SlHit(cfg, c.pnl, c.stake) THEN CloseForTpSl(closing, cid)
       ELSE e_fr

RECURSIVE monitor_loop(_, _, _, _, _)
monitor_loop(e, cids, symbol, price, o) ==
    IF cids = << >> THEN e
    ELSE monitor_loop(monitor_one(e, Head(cids), symbol, price, o),
                      Tail(cids), symbol, price, o)

\* TradingBotEngine._monitor_open_contracts
_monitor_open_contracts(e, symbol, price, o) ==
    monitor_loop(e, [i \in 1..Len(e.contracts) |-> e.contracts[i].id],
                 symbol, price, o)

\* ---------------------------------------------------------- order placement
\* Seconds left until the next boundary of granularity g.
UntilNext(t, g) == (t \div g + 1) * g - t

\* duration_seconds as _execute_trade computes it; 0 when no branch sets it.
\* o.late and o.exhausted are the ATR comparisons of strategies 5 and 2.
TradeDuration(e, symbol, o) ==
    LET cfg == e.config
        strat_key == cfg.active_strategy
        strat == STRATEGY_MAP[strat_key]
        sd == e.symbol_data[symbol]
        known == symbol \in DOMAIN e.screener_data
        atr_1m == IF known THEN e.screener_data[symbol].atr_1m ELSE 0
        atr_24h == IF known THEN e.screener_data[symbol].atr_24h ELSE 0
        expiry_min == IF known THEN e.screener_data[symbol].expiry_min ELSE 5
    IN IF strat_key = "strategy_1" THEN UntilNext(e.now, DaySecs)
       ELSE IF strat_key = "strategy_2"
       THEN IF o.ta_ready /\ o.exhausted THEN HourSecs \div 2 ELSE HourSecs
       ELSE IF strat_key = "strategy_3"
       THEN UntilNext(e.now, STRATEGY_MAP.strategy_3.htf_granularity) + 2 * MinuteSecs
       ELSE IF strat_key = "strategy_5"
       THEN IF cfg.contract_type = "multiplier" THEN 0
            ELSE IF sd.ltf_candles # << >> /\ o.late THEN 0
            ELSE IF atr_24h > 0 /\ atr_1m * 10 < atr_24h THEN 0
            ELSE IF atr_1m <= 0 THEN 0
            ELSE expiry_min * MinuteSecs
       ELSE IF strat.expiry_type = "eod" THEN UntilNext(e.now, DaySecs)
       ELSE IF strat.expiry_type = "fixed"
       THEN IF cfg.custom_expiry # None THEN cfg.custom_expiry ELSE strat.duration
       ELSE 0

\* The position loop of _execute_trade: the first contract of the symbol, in
\* insertion order, decides.  "same" = drop the intent, otherwise the id of
\* the opposite contract to close (None when the symbol has no contract).
RECURSIVE FirstOfSymbol(_, _, _)
FirstOfSymbol(cs, symbol, internal_side) ==
    IF cs = << >> THEN [same |-> FALSE, existing_cid |-> None]
    ELSE IF Head(cs).symbol = symbol
    THEN IF Head(cs).side = internal_side
         THEN [same |-> TRUE, existing_cid |-> None]
         ELSE [same |-> FALSE, existing_cid |-> Head(cs).id]
    ELSE FirstOfSymbol(Tail(cs), symbol, internal_side)

\* TradingBotEngine._execute_trade
_execute_trade(e, symbol, side, o) ==
    LET e0 == [e EXCEPT !.opens = Append(@,
                  [symbol |-> symbol, side |-> side,
                   epoch |-> IF symbol \in DOMAIN e.symbol_data
                             THEN e.symbol_data[symbol].current_ltf_candle.epoch
                             ELSE None])]
        internal_side == IF side = "buy" THEN "long" ELSE "short"
        strat_key == e.config.active_strategy
        \* strategy 3 counts the trade before any further check
        e1 == IF strat_key = "strategy_3"
              THEN [e0 EXCEPT !.symbol_data[symbol].hourly_trade_count = @ + 1]
              ELSE e0
        duration_seconds == TradeDuration(e, symbol, o)
        pos == FirstOfSymbol(e.contracts, symbol, internal_side)
        e2 == IF pos.existing_cid # None
              THEN _close_contract(e1, pos.existing_cid) ELSE e1
        is_multiplier == strat_key = "strategy_5"
                         /\ e.config.contract_type = "multiplier"
        ctype == IF is_multiplier
                 THEN (IF side = "buy" THEN "MULTUP" ELSE "MULTDOWN")
                 ELSE (IF side = "buy" THEN "CALL" ELSE "PUT")
    IN IF symbol \notin DOMAIN e.symbol_data THEN e0
       ELSE IF duration_seconds <= 0 THEN e1
       ELSE IF pos.same THEN e1
       ELSE IF e.sock_connected
       THEN Send(e2, BuyFrame(symbol, ctype, duration_seconds))
       ELSE e2

\* --------------------------------------------------------------- evaluators
\* sum(c.get('pnl', 0) for c in contracts.values())
RECURSIVE SumPnl(_)
SumPnl(cs) == IF cs = << >> THEN 0 ELSE Head(cs).pnl + SumPnl(Tail(cs))

\* daily_pnl = current_equity - daily_start_balance
DailyPnl(e) == e.account_balance + SumPnl(e.contracts) - e.daily_start_balance

\* current_pnl_pct <= -max_loss_pct, and current_pnl_pct >= max_profit_pct
LossCapHit(e) ==
    /\ e.daily_start_balance > 0
    /\ DailyPnl(e) * 100 <= 0 - (e.config.max_daily_loss_pct * e.daily_start_balance)
ProfitCapHit(e) ==
    /\ e.daily_start_balance > 0
    /\ DailyPnl(e) * 100 >= e.config.max_daily_profit_pct * e.daily_start_balance

\* `if self.is_running: self.is_running = False` followed by `return`
Pause(e) == [e EXCEPT !.is_running = FALSE]

\* TradingBotEngine._track_daily_open_crosses
_track_daily_open_crosses(e, symbol, current_price) ==
    LET sd == e.symbol_data[symbol]
        current_side == IF current_price > sd.htf_open THEN "above" ELSE "below"
        crossed == sd.last_cross_side # "None" /\ sd.last_cross_side # current_side
    IN IF sd.htf_open = None THEN e
       ELSE [e EXCEPT !.symbol_data[symbol].daily_crosses =
                          IF crossed THEN @ + 1 ELSE @,
                      !.symbol_data[symbol].last_cross_side = current_side]

\* The breakout test of strategies 1, 2 and the fallback: "buy", "sell", "None".
Breakout(current_ltf, htf_open, check_price) ==
    IF /\ current_ltf.open <= htf_open /\ check_price > htf_open
       /\ check_price > current_ltf.open
    THEN "buy"
    ELSE IF /\ current_ltf.open >= htf_open /\ check_price < htf_open
            /\ check_price < current_ltf.open
    THEN "sell"
    ELSE "None"

\* The hourly reset of strategy 3 done on every evaluation.
HourlyResetAlways(e, symbol) ==
    [e EXCEPT !.symbol_data[symbol].last_trade_hour = HourOf(e.now),
              !.symbol_data[symbol].hourly_trade_count = 0]

\* `if sd.get('last_trade_hour') != now.hour: ...` of strategy 3
HourlyReset(e, symbol) ==
    IF e.symbol_data[symbol].last_trade_hour # HourOf(e.now)
    THEN [e EXCEPT !.symbol_data[symbol].last_trade_hour = HourOf(e.now),
                   !.symbol_data[symbol].hourly_trade_count = 0]
    ELSE e

\* The pullback test shared by both strategy-7 evaluators.
Pullback(cache, prev_small) ==
    IF cache.high = "BUY" /\ cache.mid = "BUY"
    THEN IF cache.small = "BUY" /\ prev_small # "BUY" THEN "buy" ELSE "None"
    ELSE IF cache.high = "SELL" /\ cache.mid = "SELL"
    THEN IF cache.small = "SELL" /\ prev_small # "SELL" THEN "sell" ELSE "None"
    ELSE "None"

NoCache == [timestamp |-> None, small |-> "None", mid |-> "None", high |-> "None"]
NoMetrics == [confidence |-> 0, threshold |-> 0, direction |-> "None",
              atr_1m |-> 0, atr_24h |-> 0, expiry_min |-> 0,
              over_adr |-> FALSE, last_update |-> None]
Cache7(e, symbol) ==
    IF symbol \in DOMAIN e.strat7_cache THEN e.strat7_cache[symbol] ELSE NoCache
Abs(x) == IF x < 0 THEN 0 - x ELSE x

\* TradingBotEngine._process_strategy_7
_process_strategy_7(e, symbol, o) ==
    LET cache == Cache7(e, symbol)
        sd == e.symbol_data[symbol]
        has_metrics == symbol \in DOMAIN e.screener_data
        e1 == [e EXCEPT !.symbol_data[symbol].last_strat7_small_rec = cache.small]
        signal == Pullback(cache, sd.last_strat7_small_rec)
        time_key == e.now \div MinuteSecs
        e2 == [e1 EXCEPT !.symbol_data[symbol].last_trade_ltf = time_key]
    IN IF cache = NoCache THEN e
       ELSE IF has_metrics /\ e.screener_data[symbol].over_adr THEN e
       ELSE IF e.now - cache.timestamp > 65 THEN e
       ELSE IF signal = "None" THEN e1
       ELSE IF sd.last_trade_ltf = time_key THEN e1
       ELSE IF ~has_metrics THEN [e2 EXCEPT !.raised = TRUE]
       ELSE _execute_trade(e2, symbol, signal, o)

\* The signal of strategies 5 and 6 in TradingBotEngine._process_strategy.
\* o.structure: the structure, momentum and pattern tests all pass.
IntelligenceSignal(e, symbol, o) ==
    LET m == e.screener_data[symbol]
        strat_key == e.config.active_strategy
        is_multiplier == e.config.contract_type = "multiplier"
        threshold == IF strat_key = "strategy_6" THEN 60 ELSE m.threshold
        by_direction == IF m.direction = "CALL" THEN "buy" ELSE "sell"
        confirmed == IF m.direction \in {"CALL", "PUT"} /\ o.structure
                     THEN by_direction ELSE "None"
    IN IF Abs(m.confidence) < threshold THEN "None"
       ELSE IF is_multiplier
       THEN IF strat_key = "strategy_6" THEN "None" ELSE confirmed
       ELSE IF strat_key = "strategy_6" THEN by_direction ELSE confirmed

\* The tail of the evaluators without the per-candle test.
TradeAlways(e, symbol, signal, time_key, is_candle_close, o) ==
    LET e1 == [e EXCEPT !.symbol_data[symbol].last_trade_ltf = time_key,
                        !.symbol_data[symbol].last_processed_ltf =
                            IF is_candle_close THEN time_key ELSE @]
    IN IF signal = "None" THEN e ELSE _execute_trade(e1, symbol, signal, o)

\* The tail of both evaluators: per-candle dedup, then the order.
TradeOnce(e, symbol, signal, time_key, is_candle_close, o) ==
    LET sd == e.symbol_data[symbol]
        e1 == [e EXCEPT !.symbol_data[symbol].last_trade_ltf = time_key,
                        !.symbol_data[symbol].last_processed_ltf =
                            IF is_candle_close THEN time_key ELSE @]
    IN IF signal = "None" THEN e
       ELSE IF sd.last_trade_ltf = time_key THEN e
       ELSE _execute_trade(e1, symbol, signal, o)

\* TradingBotEngine._process_strategy
_process_strategy(e, symbol, is_candle_close, o) ==
    LET sd == e.symbol_data[symbol]
        htf_open == sd.htf_open
        current_ltf == sd.current_ltf_candle
        current_price == sd.last_tick
        time_key == current_ltf.epoch
        strat_key == e.config.active_strategy
        e1 == IF strat_key = "strategy_1"
              THEN _track_daily_open_crosses(e, symbol, current_price) ELSE e
        check_price == IF is_candle_close THEN current_ltf.close ELSE current_price
        breakout == Breakout(current_ltf, htf_open, check_price)
        e3 == HourlyReset(e1, symbol)
        s1 == IF breakout = "buy" /\ o.bias \in {"None", "buy"} THEN "buy"
              ELSE IF breakout = "sell" /\ o.bias \in {"None", "sell"} THEN "sell"
              ELSE "None"
        s2 == IF breakout = "buy" /\ o.rsi > 55 /\ o.bias \in {"None", "buy"} THEN "buy"
              ELSE IF breakout = "sell" /\ o.rsi < 45 /\ o.bias \in {"None", "sell"} THEN "sell"
              ELSE "None"
        go(x, signal) == TradeOnce(x, symbol, signal, time_key, is_candle_close, o)
    IN IF LossCapHit(e) THEN [Pause(e) EXCEPT !.breach = TRUE]
       ELSE IF htf_open = None \/ current_ltf = NoCandle \/ current_price = None THEN e
       ELSE IF sd.last_processed_ltf = time_key /\ is_candle_close THEN e
       ELSE IF strat_key = "strategy_4"
       THEN IF ~is_candle_close THEN e1 ELSE go(e1, o.s4)
       ELSE IF strat_key = "strategy_7" THEN _process_strategy_7(e1, symbol, o)
       ELSE IF strat_key \in {"strategy_5", "strategy_6"}
       THEN IF symbol \notin DOMAIN e.screener_data THEN e1
            ELSE go(e1, IntelligenceSignal(e1, symbol, o))
       ELSE IF strat_key = "strategy_1"
       THEN IF ~is_candle_close THEN e1
            ELSE IF e1.symbol_data[symbol].daily_crosses > 3 THEN e1
            ELSE go(e1, s1)
       ELSE IF strat_key = "strategy_2" THEN go(e1, s2)
       ELSE \* strategy_3
            IF e3.symbol_data[symbol].hourly_trade_count >= 4 THEN e3
            ELSE IF o.low_vol THEN e3
            ELSE IF Len(sd.ltf_candles) >= 2
            THEN \* `if side == 'buy'`: the name side is not defined
                 [e3 EXCEPT !.raised = TRUE]
            ELSE e3

\* StrategyHandler._process_strategy_7: the signal and the engine after it.
handler_process_strategy_7(e, symbol) ==
    LET cache == Cache7(e, symbol)
        sd == e.symbol_data[symbol]
        has_metrics == symbol \in DOMAIN e.screener_data
        rec(x) == IF x = "None" THEN "NEUTRAL" ELSE x
        c == [cache EXCEPT !.small = rec(@), !.mid = rec(@), !.high = rec(@)]
        e1 == [e EXCEPT !.symbol_data[symbol].last_strat7_small_rec = c.small]
        aligned == IF c.high = "BUY" /\ c.mid = "BUY" THEN "buy"
                   ELSE IF c.high = "SELL" /\ c.mid = "SELL" THEN "sell"
                   ELSE "None"
    IN IF cache = NoCache THEN [e |-> e, signal |-> "None"]
       ELSE IF /\ has_metrics /\ "over_adr" \in DOMAIN e.screener_data[symbol]
               /\ e.screener_data[symbol].over_adr
       THEN [e |-> e, signal |-> "None"]
       ELSE IF e.now - cache.timestamp > 65 THEN [e |-> e, signal |-> "None"]
       ELSE IF e.config.strat7_small_tf = "OFF" THEN [e |-> e1, signal |-> aligned]
       ELSE [e |-> e1, signal |-> Pullback(c, sd.last_strat7_small_rec)]

\* StrategyHandler._process_intelligence_strategy
handler_process_intelligence_strategy(e, symbol, o) ==
    LET m == e.screener_data[symbol]
        strat_key == e.config.active_strategy
        threshold == IF strat_key = "strategy_6" THEN 60 ELSE m.threshold
        by_direction == IF m.direction = "CALL" THEN "buy" ELSE "sell"
    IN IF symbol \notin DOMAIN e.screener_data THEN "None"
       ELSE IF Abs(m.confidence) < threshold THEN "None"
       ELSE IF strat_key = "strategy_6" THEN by_direction
       ELSE IF m.direction \in {"CALL", "PUT"} /\ o.structure THEN by_direction
       ELSE "None"

\* StrategyHandler._process_default_strategies
handler_process_default_strategies(e, symbol, is_candle_close, o) ==
    LET sd == e.symbol_data[symbol]
        strat_key == e.config.active_strategy
        htf_open == sd.htf_open
        current_ltf == sd.current_ltf_candle
        check_price == IF is_candle_close THEN current_ltf.close ELSE sd.last_tick
        breakout == Breakout(current_ltf, htf_open, check_price)
        e3 == HourlyReset(e, symbol)
        counted == [e3 EXCEPT !.symbol_data[symbol].hourly_trade_count = @ + 1]
        n == Len(sd.ltf_candles)
        c1 == sd.ltf_candles[n]
        c2 == sd.ltf_candles[n - 1]
        none(x) == [e |-> x, signal |-> "None"]
    IN IF strat_key = "strategy_1"
       THEN IF ~is_candle_close \/ sd.daily_crosses > 3 THEN none(e)
            ELSE IF breakout = "buy" /\ o.bias \in {"None", "buy"}
            THEN [e |-> e, signal |-> "buy"]
            ELSE IF breakout = "sell" /\ o.bias \in {"None", "sell"}
            THEN [e |-> e, signal |-> "sell"]
            ELSE none(e)
       ELSE IF strat_key = "strategy_2"
       THEN IF breakout = "buy" /\ o.rsi > 55 /\ o.bias \in {"None", "buy"}
            THEN [e |-> e, signal |-> "buy"]
            ELSE IF breakout = "sell" /\ o.rsi < 45 /\ o.bias \in {"None", "sell"}
            THEN [e |-> e, signal |-> "sell"]
            ELSE none(e)
       ELSE IF strat_key = "strategy_3"
       THEN IF e3.symbol_data[symbol].hourly_trade_count >= 4 \/ o.low_vol \/ n < 2
            THEN none(e3)
            ELSE IF c1.close > htf_open /\ c2.close > htf_open /\ c1.close > c1.open
            THEN [e |-> counted, signal |-> "buy"]
            ELSE IF c1.close < htf_open /\ c2.close < htf_open /\ c1.close < c1.open
            THEN [e |-> counted, signal |-> "sell"]
            ELSE none(e3)
       ELSE [e |-> e, signal |-> breakout]

\* StrategyHandler.process_strategy
process_strategy(e, symbol, is_candle_close, o) ==
    LET sd == e.symbol_data[symbol]
        current_ltf == sd.current_ltf_candle
        time_key == current_ltf.epoch
        strat_key == e.config.active_strategy
        e1 == IF strat_key = "strategy_1"
              THEN _track_daily_open_crosses(e, symbol, sd.last_tick) ELSE e
        r == IF strat_key = "strategy_4"
             THEN [e |-> e1, signal |-> IF is_candle_close THEN o.s4 ELSE "None"]
             ELSE IF strat_key = "strategy_7"
             THEN handler_process_strategy_7(e1, symbol)
             ELSE IF strat_key \in {"strategy_5", "strategy_6"}
             THEN [e |-> e1, signal |-> handler_process_intelligence_strategy(e1, symbol, o)]
             ELSE handler_process_default_strategies(e1, symbol, is_candle_close, o)
    IN IF LossCapHit(e) THEN [Pause(e) EXCEPT !.breach = TRUE]
       ELSE IF ProfitCapHit(e) THEN Pause(e)
       ELSE IF sd.htf_open = None \/ current_ltf = NoCandle \/ sd.last_tick = None THEN e
       ELSE IF sd.last_processed_ltf = time_key /\ is_candle_close THEN e
       ELSE TradeOnce(r.e, symbol, r.signal, time_key, is_candle_close, o)

\* The evaluator the tick path runs.
Evaluate(e, symbol, is_candle_close, o) ==
    LET called == [e EXCEPT !.evals = Append(@, [symbol |-> symbol,
                                 is_candle_close |-> is_candle_close])]
    IN IF e.evaluator = "handler"
       THEN process_strategy(called, symbol, is_candle_close, o)
       ELSE _process_strategy(called, symbol, is_candle_close, o)

\* ------------------------------------------------------------- symbol data
\* TradingBotEngine._init_symbol_data: the entry a new symbol gets.
\* ltf_alias is the position in ltf_candles of the dict object that
\* current_ltf_candle also refers to (0: none).
NewSymbolData ==
    [ ltf_candles |-> << >>, htf_candles |-> << >>, bias_candles |-> << >>,
      daily_candles |-> << >>, m5_candles |-> << >>, m15_candles |-> << >>,
      h4_candles |-> << >>, m3_candles |-> << >>,
      htf_open |-> None, htf_epoch |-> None, last_tick |-> None,
      last_processed_ltf |-> None, last_trade_ltf |-> None,
      current_ltf_candle |-> NoCandle, current_htf_candle |-> NoCandle,
      current_bias_candle |-> NoCandle, ltf_alias |-> 0,
      consecutive_wins |-> 0, consecutive_losses |-> 0,
      daily_crosses |-> 0, last_cross_side |-> "None",
      hourly_trade_count |-> 0, last_trade_hour |-> None,
      subscription_id |-> None, last_htf_fetch_time |-> 0,
      last_strat7_small_rec |-> "None" ]

\* symbol_data with one more key
WithSymbol(sd, symbol, v) ==
    [k \in DOMAIN sd \cup {symbol} |-> IF k = symbol THEN v ELSE sd[k]]
WithoutSymbol(sd, symbol) == [k \in DOMAIN sd \ {symbol} |-> sd[k]]

\* _init_symbol_data without its `if symbol not in self.symbol_data` test.
init_symbol_data_anew(e, symbol) ==
    [e EXCEPT !.symbol_data = WithSymbol(@, symbol, NewSymbolData)]

\* TradingBotEngine._init_symbol_data
_init_symbol_data(e, symbol) ==
    IF symbol \in DOMAIN e.symbol_data THEN e
    ELSE [e EXCEPT !.symbol_data = WithSymbol(@, symbol, NewSymbolData)]

\* TradingBotEngine._fetch_history
_fetch_history(e, symbol, granularity) == Send(e, HistoryFrame(symbol, granularity))

RECURSIVE FetchAll(_, _, _)
FetchAll(e, symbol, grans) ==
    IF grans = << >> THEN e
    ELSE FetchAll(_fetch_history(e, symbol, Head(grans)), symbol, Tail(grans))

\* ----------------------------------------------------------------- candles
RingCap == 100
WideRingCap == 200

\* `if len(candles) > 1: ring = candles  else: ring.append(candles[0]); pop`
RingPut(ring, candles, cap) ==
    IF Len(candles) > 1 THEN candles ELSE AppendCapped(ring, candles[1], cap)

\* htf_start_epoch of _handle_candles
HtfStart(t, granularity) ==
    IF granularity \in {DaySecs, HourSecs, 900} THEN Floor(t, granularity)
    ELSE Floor(t, MinuteSecs)

\* TradingBotEngine._handle_candles, for a non-empty candle list
_handle_candles(e, symbol, granularity, candles) ==
    LET strat_key == e.config.active_strategy
        strat == STRATEGY_MAP[strat_key]
        sd == e.symbol_data[symbol]
        is_htf == granularity = strat.htf_granularity
        is_ltf == ~is_htf /\ granularity = strat.ltf_granularity
        \* the 1-minute branch: the aliased object keeps its place on an
        \* append, moves down on a pop, and is lost when the list is replaced
        alias60 == IF Len(candles) > 1 THEN 0
                   ELSE IF Len(sd.ltf_candles) + 1 > RingCap
                   THEN Max(sd.ltf_alias - 1, 0) ELSE sd.ltf_alias
        sd1 == IF granularity = 60
               THEN [sd EXCEPT !.ltf_candles = RingPut(@, candles, RingCap),
                               !.ltf_alias = alias60]
               ELSE sd
        sd2 == IF granularity = 180
               THEN [sd1 EXCEPT !.m3_candles = RingPut(@, candles, RingCap)] ELSE sd1
        sd3 == IF granularity = 300
               THEN [sd2 EXCEPT !.m5_candles = RingPut(@, candles, RingCap)] ELSE sd2
        sd4 == IF granularity = 900
               THEN [sd3 EXCEPT !.m15_candles = RingPut(@, candles, WideRingCap)] ELSE sd3
        sd5 == IF granularity = 3600
               THEN [sd4 EXCEPT !.htf_candles = RingPut(@, candles, WideRingCap)] ELSE sd4
        sd6 == IF granularity = 14400
               THEN [sd5 EXCEPT !.bias_candles = RingPut(@, candles, RingCap),
                                !.h4_candles = RingPut(@, candles, RingCap)]
               ELSE sd5
        sd7 == IF granularity = strat.bias_granularity
               THEN [sd6 EXCEPT !.current_bias_candle = Last(candles)] ELSE sd6
        sd8 == IF granularity = DaySecs
               THEN [sd7 EXCEPT !.daily_candles = candles] ELSE sd7
        target_candle == Last(candles)
        htf_start_epoch == HtfStart(e.now, granularity)
        sd9 == IF target_candle.epoch < htf_start_epoch
               THEN [sd8 EXCEPT !.htf_open = target_candle.close,
                                !.htf_epoch = htf_start_epoch]
               ELSE [sd8 EXCEPT !.htf_open = target_candle.open,
                                !.htf_epoch = target_candle.epoch]
        sd10 == IF strat_key \in {"strategy_4", "strategy_5", "strategy_6"}
                THEN [sd9 EXCEPT !.htf_candles = candles] ELSE sd9
        sd11 == [sd8 EXCEPT !.ltf_candles = candles,
                            !.current_ltf_candle = Last(candles),
                            !.ltf_alias = Len(candles)]
    IN IF symbol \notin DOMAIN e.symbol_data THEN e
       ELSE [e EXCEPT !.symbol_data[symbol] =
                IF is_htf THEN sd10 ELSE IF is_ltf THEN sd11 ELSE sd8]

\* ------------------------------------------------------------------- ticks
RECURSIVE FetchEach(_, _, _)
\* `for sym in symbols: self._fetch_history(self.ws, sym, granularity, n)`
FetchEach(e, symbols, granularity) ==
    IF symbols = << >> THEN e
    ELSE FetchEach(_fetch_history(e, Head(symbols), granularity),
                   Tail(symbols), granularity)

\* _handle_tick, lines 459-467: the daily reference balance follows the
\* first tick of a new UTC date.
DayRollover(e) ==
    IF e.last_balance_reset_date = None \/ DateOf(e.now) > e.last_balance_reset_date
    THEN LET e1 == [e EXCEPT !.daily_start_balance = e.account_balance,
                             !.last_balance_reset_date = DateOf(e.now)]
         IN IF e.config.active_strategy = "strategy_1"
            THEN FetchEach(e1, e.config.symbols, DaySecs) ELSE e1
    ELSE e

\* _handle_tick up to the test of is_running (lines 457-477).
tick_pre(e, symbol, price, sub_id, o) ==
    LET e1 == DayRollover(e)
        sd == e1.symbol_data[symbol]
        e2 == [e1 EXCEPT !.symbol_data[symbol].last_tick = price,
                         !.symbol_data[symbol].subscription_id =
                             IF Truthy(sub_id) /\ ~Truthy(sd.subscription_id)
                             THEN sub_id ELSE @]
    IN IF symbol \notin DOMAIN e.symbol_data THEN e1
       ELSE _monitor_open_contracts(e2, symbol, price, o)

\* tick_time.replace(minute=(minute // ltf_min) * ltf_min, second=0)
LtfStart(t, ltf_min) ==
    Floor(t, HourSecs) + (((t % HourSecs) \div MinuteSecs) \div ltf_min) * ltf_min * MinuteSecs

\* The periodic history refreshes of _handle_tick (lines 481-509).
tick_refresh(e, symbol) ==
    LET strat_key == e.config.active_strategy
        strat == STRATEGY_MAP[strat_key]
        sd == e.symbol_data[symbol]
        due == SelectSeq(<<60, 300, 900, 3600, 14400>>, LAMBDA g : e.now % g = 0)
        e1 == IF strat_key = "strategy_5" THEN FetchAll(e, symbol, due) ELSE e
        e2 == IF strat_key = "strategy_5"
                 /\ (sd.current_bias_candle = NoCandle
                     \/ e.now >= sd.current_bias_candle.epoch + strat.bias_granularity)
              THEN _fetch_history(e1, symbol, strat.bias_granularity) ELSE e1
    IN IF /\ strat_key \in {"strategy_2", "strategy_3", "strategy_4", "strategy_5"}
          /\ (sd.htf_epoch = None \/ e.now >= sd.htf_epoch + strat.htf_granularity)
          /\ e.now - sd.last_htf_fetch_time > 60
       THEN _fetch_history([e2 EXCEPT !.symbol_data[symbol].last_htf_fetch_time = e.now],
                           symbol, strat.htf_granularity)
       ELSE e2

FreshCandle(ep, price) == Candle(ep, price, price, price, price)
Touch(c, price) == [c EXCEPT !.close = price, !.high = Max(@, price),
                             !.low = Min(@, price)]

\* HTF candle management of _handle_tick (lines 512-535).
tick_htf(e, symbol, price) ==
    LET htf_sec == STRATEGY_MAP[e.config.active_strategy].htf_granularity
        sd == e.symbol_data[symbol]
        cur == sd.current_htf_candle
        fresh == FreshCandle(Floor(e.now, htf_sec), price)
    IN IF cur = NoCandle
       THEN [e EXCEPT !.symbol_data[symbol].current_htf_candle = fresh]
       ELSE IF e.now >= cur.epoch + htf_sec
       THEN [e EXCEPT !.symbol_data[symbol].htf_candles = AppendCapped(@, cur, WideRingCap),
                      !.symbol_data[symbol].current_htf_candle = fresh]
       ELSE [e EXCEPT !.symbol_data[symbol].current_htf_candle = Touch(cur, price)]

\* LTF candle management and both evaluation sites (lines 538-563).
tick_ltf(e, symbol, price, o) ==
    LET strat == STRATEGY_MAP[e.config.active_strategy]
        ltf_min == strat.ltf_granularity \div 60
        sd == e.symbol_data[symbol]
        cur == sd.current_ltf_candle
        n == Len(sd.ltf_candles)
        \* the candle closes: it goes to the ring, candle-close evaluation
        \* runs, and only then the next candle starts
        stored == [e EXCEPT !.symbol_data[symbol].ltf_candles = AppendCapped(@, cur, RingCap),
                            !.symbol_data[symbol].ltf_alias =
                                IF n + 1 > RingCap THEN Max(@ - 1, 0) ELSE @]
        judged == IF e.config.entry_type = "candle_close"
                  THEN Evaluate(stored, symbol, TRUE, o) ELSE stored
        rolled == [judged EXCEPT
                      !.symbol_data[symbol].current_ltf_candle =
                          FreshCandle(LtfStart(e.now, ltf_min), price),
                      !.symbol_data[symbol].ltf_alias = 0]
        \* the candle stays open: the update also shows in the ring if the
        \* ring holds the same object
        touched == [e EXCEPT
                      !.symbol_data[symbol].current_ltf_candle = Touch(cur, price),
                      !.symbol_data[symbol].ltf_candles =
                          IF sd.ltf_alias > 0
                          THEN [@ EXCEPT ![sd.ltf_alias] = Touch(cur, price)] ELSE @]
        managed == IF cur = NoCandle THEN e
                   ELSE IF e.now >= cur.epoch + strat.ltf_granularity
                   THEN (IF judged.raised THEN judged ELSE rolled)
                   ELSE touched
    IN IF managed.raised THEN managed
       ELSE IF e.config.entry_type = "tick" THEN Evaluate(managed, symbol, FALSE, o)
       ELSE managed

\* _handle_tick past the test of is_running (lines 480-563).
tick_run(e, symbol, price, o) ==
    tick_ltf(tick_htf(tick_refresh(e, symbol), symbol, price), symbol, price, o)

\* TradingBotEngine._handle_tick
_handle_tick(e, symbol, price, sub_id, o) ==
    LET a == tick_pre(e, symbol, price, sub_id, o)
    IN IF symbol \in DOMAIN e.symbol_data /\ a.is_running
       THEN tick_run(a, symbol, price, o) ELSE a

\* --------------------------------------------------------------- lifecycle
RECURSIVE Subscribe(_, _)
\* The per-symbol loop of start(): init, tick subscription, two histories.
Subscribe(e, symbols) ==
    IF symbols = << >> THEN e
    ELSE LET sym == Head(symbols)
             strat_key == e.config.active_strategy
             strat == STRATEGY_MAP[strat_key]
             e1 == Send(_init_symbol_data(e, sym), TicksFrame(sym))
             e2 == IF strat_key = "strategy_7" THEN e1
                   ELSE FetchAll(e1, sym, <<strat.ltf_granularity, strat.htf_granularity>>)
         IN Subscribe(e2, Tail(symbols))

\* TradingBotEngine.start
start(e, passive_monitoring) ==
    LET e1 == [e EXCEPT !.is_running = ~passive_monitoring]
    IN IF ~e.ws_thread_alive
       THEN [e1 EXCEPT !.stop_event = FALSE, !.ws_thread_alive = TRUE]
       ELSE IF e1.is_running /\ e.sock_connected
       THEN Subscribe(e1, e.config.symbols)
       ELSE e1

\* The forget loop of stop(), over symbol_data in a fixed key order.
RECURSIVE ForgetAll(_, _)
ForgetAll(e, syms) ==
    IF syms = {} THEN e
    ELSE LET sym == CHOOSE x \in syms : TRUE
             sub == e.symbol_data[sym].subscription_id
             e1 == IF Truthy(sub)
                   THEN [Send(e, ForgetFrame(sub)) EXCEPT
                            !.symbol_data[sym].subscription_id = None]
                   ELSE e
         IN ForgetAll(e1, syms \ {sym})

\* TradingBotEngine.stop, line 2501, and lines 2506-2511
stop_flag(e) == [e EXCEPT !.is_running = FALSE]
stop_forget(e) ==
    IF e.sock_connected THEN ForgetAll(e, DOMAIN e.symbol_data) ELSE e
stop(e) == stop_forget(stop_flag(e))

\* TradingBotEngine._apply_api_credentials: ws.close()
_apply_api_credentials(e) == [e EXCEPT !.sock_connected = FALSE]

\* The history requests a strategy change or a new symbol triggers.
ExtraGrans(strat_key) ==
    IF strat_key = "strategy_5" THEN <<60, 300, 900, 3600, 86400>>
    ELSE IF strat_key = "strategy_6" THEN <<60, 900, 3600, 86400>>
    ELSE << >>

RECURSIVE Refetch(_, _, _)
\* apply_live_config_update, lines 2567-2588
Refetch(e, symbols, new_strat) ==
    IF symbols = << >> THEN e
    ELSE LET sym == Head(symbols)
             strat == STRATEGY_MAP[new_strat]
             e1 == IF new_strat = "strategy_7" THEN Send(e, TicksFrame(sym))
                   ELSE LET h == FetchAll(e, sym, <<strat.ltf_granularity,
                                                    strat.htf_granularity>>
                                                  \o ExtraGrans(new_strat))
                        IN IF ExtraGrans(new_strat) # << >>
                           THEN Send(h, Frame("contracts_for", sym, None, None))
                           ELSE h
         IN Refetch(e1, Tail(symbols), new_strat)

RECURSIVE AddSymbols(_, _, _)
\* apply_live_config_update, lines 2596-2619
AddSymbols(e, symbols, new_strat) ==
    IF symbols = << >> THEN e
    ELSE LET sym == Head(symbols)
             e1 == Send(_init_symbol_data(e, sym), TicksFrame(sym))
             e2 == IF new_strat = "strategy_7" THEN e1
                   ELSE Refetch(e1, <<sym>>, new_strat)
         IN AddSymbols(e2, Tail(symbols), new_strat)

RECURSIVE RemoveSymbols(_, _)
\* apply_live_config_update, lines 2621-2629
RemoveSymbols(e, symbols) ==
    IF symbols = << >> THEN e
    ELSE LET sym == Head(symbols)
             known == sym \in DOMAIN e.symbol_data
             e1 == IF known /\ Truthy(e.symbol_data[sym].subscription_id)
                   THEN Send(e, ForgetFrame(e.symbol_data[sym].subscription_id))
                   ELSE e
             e2 == IF known
                   THEN [e1 EXCEPT !.symbol_data = WithoutSymbol(@, sym)] ELSE e1
         IN RemoveSymbols(e2, Tail(symbols))

InSeq(x, s) == \E i \in 1..Len(s) : s[i] = x

\* TradingBotEngine.apply_live_config_update
apply_live_config_update(e, new_config) ==
    LET old == e.config
        e1 == [e EXCEPT !.config = new_config]
        added == SelectSeq(new_config.symbols, LAMBDA x : ~InSeq(x, old.symbols))
        removed == SelectSeq(old.symbols, LAMBDA x : ~InSeq(x, new_config.symbols))
    IN IF old.deriv_api_token # new_config.deriv_api_token
       THEN _apply_api_credentials(e1)
       ELSE IF old.active_strategy # new_config.active_strategy
       THEN \* _init_symbol_data leaves every known symbol as it is
            IF e.sock_connected
            THEN Refetch(e1, new_config.symbols, new_config.active_strategy)
            ELSE e1
       ELSE IF e.sock_connected
       THEN RemoveSymbols(AddSymbols(e1, added, new_config.active_strategy), removed)
       ELSE e1

\* app.update_config, lines 66-72: the whitelisted keys whose value differs
\* from the stored configuration.
allowed_params ==
    {"deriv_api_token", "symbols", "use_fixed_balance", "max_daily_loss_pct",
     "max_daily_profit_pct", "entry_type", "tp_enabled", "tp_value",
     "sl_enabled", "sl_value", "force_close_enabled", "force_close_duration",
     "active_strategy", "contract_type", "custom_expiry"}
\* The difference test of update_config answering "changed" every time.
updates_always(current_config, new_config) == TRUE
updates_made(current_config, new_config) ==
    \E key \in DOMAIN new_config :
        key \in allowed_params /\ current_config[key] # new_config[key]
Merged(current_config, new_config) ==
    [key \in DOMAIN current_config |->
        IF key \in allowed_params /\ key \in DOMAIN new_config
        THEN new_config[key] ELSE current_config[key]]

\* app.update_config with its background_init thread; the result carries
\* the configuration file as field `file`.
update_config(e, current_config, new_config) ==
    LET merged == Merged(current_config, new_config)
        applied == apply_live_config_update(e, merged)
        settled == IF ~applied.is_running THEN start(applied, TRUE)
                   ELSE _apply_api_credentials(applied)
    IN IF updates_made(current_config, new_config)
       THEN [e |-> settled, file |-> merged]
       ELSE [e |-> e, file |-> current_config]

\* ------------------------------------------------------------- environment
\* Indicator verdicts of one handler run when no indicator has anything to say.
Quiet ==
    [ ta_ready |-> FALSE, atr_exit |-> FALSE, div |-> 0, atr_1h |-> 0,
      st_dir |-> 0, fractal |-> None, late |-> FALSE, exhausted |-> FALSE,
      bias |-> "None", rsi |-> 50, low_vol |-> FALSE, s4 |-> "None",
      structure |-> FALSE ]

\* The subscription id the broker gives the tick stream of a symbol.
SubId(symbol) == IF symbol = "R_10" THEN 1 ELSE 2

\* Stake of every contract, in USD.
Stake == 10

\* The broker opens a contract for every buy frame it receives, up to
\* MaxContracts; it remembers what the later messages about it will carry.
RECURSIVE Bought(_, _, _)
Bought(b, frames, e) ==
    IF frames = << >> THEN b
    ELSE LET f == Head(frames)
             c == [ id |-> Len(b) + 1, symbol |-> f.symbol, contract_type |-> f.t,
                    purchase_time |-> e.now, date_expiry |-> e.now + f.arg,
                    entry_tick |-> e.symbol_data[f.symbol].last_tick,
                    acked |-> FALSE, closed |-> FALSE, last_sell |-> None ]
         IN IF IsBuy(f) /\ Len(b) < MaxContracts
            THEN Bought(Append(b, c), Tail(frames), e)
            ELSE Bought(b, Tail(frames), e)

\* The broker notes the time of the last sell request for each contract.
SellsNoted(b, frames, t) ==
    [cid \in 1..Len(b) |->
        IF \E k \in 1..Len(frames) : frames[k] = SellFrame(cid)
        THEN [b[cid] EXCEPT !.last_sell = t] ELSE b[cid]]

\* The candle rings of a symbol.
RingsOf(sd) == {sd.ltf_candles, sd.htf_candles, sd.bias_candles, sd.daily_candles,
                sd.m5_candles, sd.m15_candles, sd.h4_candles, sd.m3_candles}

\* The record of the sells sent for a take-profit or stop-loss reason: per
\* contract the time of the last one and the smallest distance between two.
RECURSIVE LogTpsl(_, _, _)
LogTpsl(log, cids, t) ==
    IF cids = << >> THEN log
    ELSE LET cid == Head(cids)
             seen == cid \in DOMAIN log
             gap == IF ~seen THEN None
                    ELSE IF log[cid].gap = None THEN t - log[cid].last
                    ELSE Min(log[cid].gap, t - log[cid].last)
         IN LogTpsl(WithSymbol(log, cid, [last |-> t, gap |-> gap]), Tail(cids), t)

\* The count of the calls of _execute_trade, per symbol and UTC hour.
RECURSIVE CountOpens(_, _, _)
CountOpens(count, intents, t) ==
    IF intents = << >> THEN count
    ELSE LET key == <<Head(intents).symbol, t \div HourSecs>>
             n == IF key \in DOMAIN count THEN count[key] ELSE 0
         IN CountOpens(WithSymbol(count, key, n + 1), Tail(intents), t)

\* The state a handler leaves behind, and the records kept about the step.
Commit(e, op, day, b) ==
    /\ config' = e.config
    /\ is_running' = e.is_running
    /\ sock_connected' = e.sock_connected
    /\ stop_event' = e.stop_event
    /\ ws_thread_alive' = e.ws_thread_alive
    /\ account_balance' = e.account_balance
    /\ daily_start_balance' = e.daily_start_balance
    /\ last_balance_reset_date' = e.last_balance_reset_date
    /\ contracts' = e.contracts
    /\ symbol_data' = e.symbol_data
    /\ screener_data' = e.screener_data
    /\ strat7_cache' = e.strat7_cache
    /\ stats' = e.stats
    /\ sent' = e.sent
    /\ opens' = e.opens
    /\ last_op' = op
    /\ broker' = SellsNoted(Bought(b, e.sent, e), e.sent, e.now)
    /\ open_log' = open_log \cup
                   {<<e.opens[i].symbol, e.opens[i].epoch>> : i \in 1..Len(e.opens)}
    /\ tpsl_log' = LogTpsl(tpsl_log, e.tpsl, e.now)
    /\ breach_day' = IF e.breach THEN DateOf(e.now) ELSE day
    /\ candle_cache' = e.candle_cache
    /\ fetch_log' = e.fetch_log
    /\ evals' = e.evals
    /\ open_count' = CountOpens(open_count, e.opens, e.now)
    /\ \A sym \in DOMAIN e.symbol_data :
          \A ring \in RingsOf(e.symbol_data[sym]) : Len(ring) <= MaxRing

Op(name, arg) == [name |-> name, on |-> arg]
Idle == ws_pc.pc = "idle"
\* The day of the last loss-cap breach, forgotten by a tick of a later date.
DayAfterTick == IF breach_day # None /\ DateOf(now) > breach_day THEN None
                ELSE breach_day

\* The clock moves, at most `bound` times.
AdvanceWithin(deltas, bound) ==
    /\ advances < bound
    /\ \E d \in deltas : now' = now + d
    /\ advances' = advances + 1
    /\ sent' = << >> /\ opens' = << >> /\ evals' = << >>
    /\ last_op' = Op("advance", None)
    /\ UNCHANGED <<engine_vars, file_config, stop_event, ws_thread_alive,
                   evaluator, broker, ws_pc, open_log, tpsl_log, breach_day,
                   candle_cache, fetch_log, open_count>>

Advance(deltas) == AdvanceWithin(deltas, MaxAdvances)

\* A tick message, handled in one piece by the socket thread.
Tick(symbols, prices, oracles) ==
    /\ Idle /\ sock_connected
    /\ \E symbol \in symbols, price \in prices, o \in oracles :
          Commit(_handle_tick(Cur, symbol, price, SubId(symbol), o),
                 Op("tick", symbol), DayAfterTick, broker)
    /\ UNCHANGED <<file_config, evaluator, now, advances, ws_pc>>

\* The candle lists the broker answers a history request with: consecutive
\* candles of the granularity, `sizes` of them, the last one the running
\* period (lag 0) or the one before it (lag 1).
Batches(g, t, shapes, sizes, lags) ==
    UNION {
      { [i \in 1..n |-> Candle(Floor(t, g) - (lag + n - i) * g, sh[i].open,
                               Max(sh[i].open, sh[i].close),
                               Min(sh[i].open, sh[i].close), sh[i].close)]
        : sh \in [1..n -> shapes] }
      : <<n, lag>> \in sizes \X lags }

\* A candles message.
Candles(symbols, grans, shapes, sizes, lags) ==
    /\ Idle /\ sock_connected
    /\ \E symbol \in symbols, g \in grans :
          \E candles \in Batches(g, now, shapes, sizes, lags) :
             Commit(_handle_candles(Cur, symbol, g, candles),
                    Op("candles", <<symbol, g>>), breach_day, broker)
    /\ UNCHANGED <<file_config, evaluator, now, advances, ws_pc>>

MarkBroker(b, cid, field) == [b EXCEPT ![cid][field] = TRUE]

\* The buy response of a contract the broker opened.
BuyAck ==
    /\ Idle /\ sock_connected
    /\ \E cid \in 1..Len(broker) :
          /\ ~broker[cid].acked /\ ~broker[cid].closed
          /\ LET b == broker[cid]
                 m == [contract_id |-> cid, buy_price |-> Stake,
                       symbol |-> b.symbol, contract_type |-> b.contract_type,
                       multiplier |-> None]
                 e == on_buy(Cur, m)
             IN Commit(e, Op("buy", cid), breach_day,
                       MarkBroker(broker, cid, "acked"))
    /\ UNCHANGED <<file_config, evaluator, now, advances, ws_pc>>

\* The proposal_open_contract message the broker sends about contract cid.
UpdateMsg(cid, profit, is_sold) ==
    LET b == broker[cid]
    IN [ contract_id |-> cid, underlying |-> b.symbol, is_sold |-> is_sold,
         contract_type |-> b.contract_type, profit |-> profit,
         entry_tick |-> b.entry_tick, buy_price |-> Stake,
         purchase_time |-> b.purchase_time, date_expiry |-> b.date_expiry,
         multiplier |-> None ]

\* A contract update; the final one (is_sold) ends the contract's stream.
ContractUpdate(profits, finals) ==
    /\ Idle /\ sock_connected
    /\ \E cid \in 1..Len(broker), profit \in profits, is_sold \in finals :
          /\ ~broker[cid].closed
          /\ LET m == UpdateMsg(cid, profit, is_sold)
             IN Commit(_handle_contract_update(Cur, m), Op("contract_update", m),
                       breach_day,
                       IF is_sold THEN MarkBroker(broker, cid, "closed") ELSE broker)
    /\ UNCHANGED <<file_config, evaluator, now, advances, ws_pc>>

\* The same contract update delivered a second time, right after the first.
ReplayUpdate ==
    /\ Idle /\ sock_connected
    /\ last_op.name = "contract_update"
    /\ Commit(_handle_contract_update(Cur, last_op.on), Op("replay", last_op.on),
              breach_day, broker)
    /\ UNCHANGED <<file_config, evaluator, now, advances, ws_pc>>

\* on_message, msg_type == 'balance'
Balance(balances) ==
    /\ Idle /\ sock_connected
    /\ \E b \in balances :
          /\ b # account_balance
          /\ Commit([Cur EXCEPT !.account_balance = b], Op("balance", b),
                    breach_day, broker)
    /\ UNCHANGED <<file_config, evaluator, now, advances, ws_pc>>

\* app.handle_start_bot
Start ==
    /\ ~is_running
    /\ Truthy(config.deriv_api_token)
    /\ Commit(start(Cur, FALSE), Op("start", None), breach_day, broker)
    /\ ws_pc' = IF ws_thread_alive THEN ws_pc ELSE [ws_pc EXCEPT !.loop = "top"]
    /\ UNCHANGED <<file_config, evaluator, now, advances>>

\* app.handle_stop_bot, with stop() in one piece
Stop ==
    /\ Idle /\ is_running
    /\ Commit(stop(Cur), Op("stop", None), breach_day, broker)
    /\ UNCHANGED <<file_config, evaluator, now, advances, ws_pc>>

\* app.update_config with a full configuration from the dashboard
UpdateConfig(configs) ==
    /\ Idle
    /\ \E new_config \in configs :
          LET r == update_config(Cur, file_config, new_config)
          IN /\ Commit(r.e, Op("update_config", <<new_config, file_config>>),
                       breach_day, broker)
             /\ file_config' = r.file
             /\ ws_pc' = [ws_pc EXCEPT
                            !.loop = IF ~ws_thread_alive /\ r.e.ws_thread_alive
                                     THEN "top" ELSE @,
                            !.denied = IF r.e.config.deriv_api_token
                                           # config.deriv_api_token
                                       THEN None ELSE @]
    /\ UNCHANGED <<evaluator, now, advances>>

\* _background_screener_loop under strategy 5 or 6: _update_screener stores
\* fresh metrics of a symbol.
ScreenerUpdate(symbols, metrics) ==
    /\ Idle /\ ~stop_event
    /\ config.active_strategy \in {"strategy_5", "strategy_6"}
    /\ \E symbol \in symbols, m \in metrics :
          LET v == [m EXCEPT !.last_update = now]
          IN /\ (IF symbol \in DOMAIN screener_data THEN screener_data[symbol] # v
                 ELSE TRUE)
             /\ Commit([Cur EXCEPT !.screener_data = WithSymbol(@, symbol, v)],
                       Op("screener", symbol), breach_day, broker)
    /\ UNCHANGED <<file_config, evaluator, now, advances, ws_pc>>

\* _update_strat7_analysis, `int(self.config.get('strat7_small_tf', 60))`
\* and the two lines after it: a timeframe set to OFF is no number, and the
\* update ends there with nothing stored.
TimeframeOff(cfg) ==
    \E k \in {"strat7_small_tf", "strat7_mid_tf", "strat7_high_tf"} :
        k \in DOMAIN cfg /\ cfg[k] = "OFF"

\* _background_screener_loop under strategy 7: _update_strat7_analysis stores
\* the three recommendations of a symbol, then its screener entry.
Strat7Update(symbols, recs, metrics) ==
    /\ Idle /\ ~stop_event
    /\ config.active_strategy = "strategy_7"
    /\ ~TimeframeOff(config)
    /\ \E symbol \in symbols, r \in recs, m \in metrics :
          LET v == [r EXCEPT !.timestamp = now]
              w == [m EXCEPT !.last_update = now,
                             !.direction = IF r.high = "BUY" THEN "CALL" ELSE "PUT"]
          IN /\ (IF symbol \in DOMAIN strat7_cache THEN strat7_cache[symbol] # v
                 ELSE TRUE)
             /\ Commit([Cur EXCEPT !.strat7_cache = WithSymbol(@, symbol, v),
                                   !.screener_data = WithSymbol(@, symbol, w)],
                       Op("strat7", symbol), breach_day, broker)
    /\ UNCHANGED <<file_config, evaluator, now, advances, ws_pc>>

\* ---- _handle_tick and stop() as they interleave: the tick holds data_lock
\* ---- from start to end, stop() writes is_running without it.
TickBegin(symbols, prices, oracles) ==
    /\ Idle /\ sock_connected
    /\ \E symbol \in symbols, price \in prices, o \in oracles :
          LET e == tick_pre(Cur, symbol, price, SubId(symbol), o)
          IN /\ Commit(e, Op("tick", symbol), DayAfterTick, broker)
             /\ ws_pc' = IF symbol \in DOMAIN symbol_data /\ e.is_running
                         THEN [ws_pc EXCEPT !.pc = "run", !.symbol = symbol,
                                            !.price = price]
                         ELSE ws_pc
    /\ UNCHANGED <<file_config, evaluator, now, advances>>

TickRun(oracles) ==
    /\ ws_pc.pc = "run"
    /\ \E o \in oracles :
          Commit(tick_run(Cur, ws_pc.symbol, ws_pc.price, o),
                 Op("tick_run", ws_pc.symbol), breach_day, broker)
    /\ ws_pc' = [ws_pc EXCEPT !.pc = "idle"]
    /\ UNCHANGED <<file_config, evaluator, now, advances>>

StopSetFlag ==
    /\ is_running /\ ~ws_pc.stopping
    /\ Commit(stop_flag(Cur), Op("stop", None), breach_day, broker)
    /\ ws_pc' = [ws_pc EXCEPT !.stopping = TRUE]
    /\ UNCHANGED <<file_config, evaluator, now, advances>>

StopForget ==
    /\ ws_pc.stopping /\ Idle
    /\ Commit(stop_forget(Cur), Op("stop_forget", None), breach_day, broker)
    /\ ws_pc' = [ws_pc EXCEPT !.stopping = FALSE]
    /\ UNCHANGED <<file_config, evaluator, now, advances>>

\* ------------------------------------------------------------ initial state
\* A configuration as config.json holds it.
Config(strategy, entry_type) ==
    [ active_strategy |-> strategy, entry_type |-> entry_type,
      contract_type |-> "rise_fall", symbols |-> <<"R_10">>,
      deriv_api_token |-> 1, use_fixed_balance |-> TRUE,
      tp_enabled |-> FALSE, tp_value |-> 0, sl_enabled |-> FALSE, sl_value |-> 0,
      force_close_enabled |-> FALSE, force_close_duration |-> 60,
      max_daily_loss_pct |-> 5, max_daily_profit_pct |-> 10,
      custom_expiry |-> None, strat7_small_tf |-> "60" ]

StartBalance == Stake * 100
NoStats == [ net_trade_profit |-> 0, total_trade_profit |-> 0,
             total_trade_loss |-> 0, wins_count |-> 0, losses_count |-> 0,
             total_trades_count |-> 0 ]

\* The candle of the period of `granularity` that holds time t.
Running(t, granularity, shape) ==
    Candle(Floor(t, granularity), shape.open, Max(shape.open, shape.close),
           Min(shape.open, shape.close), shape.close)

\* The engine once the broker has answered the history requests of start()
\* for the listed symbols: the HTF answer first, then the LTF answer.
RECURSIVE Loaded(_, _)
Loaded(e, history) ==
    IF history = << >> THEN e
    ELSE LET strat == STRATEGY_MAP[e.config.active_strategy]
             h == Head(history)
             htf == _handle_candles(e, h.symbol, strat.htf_granularity,
                       <<Running(e.now, strat.htf_granularity, h.shape)>>)
             ltf == _handle_candles(htf, h.symbol, strat.ltf_granularity,
                       <<Running(e.now, strat.ltf_granularity, h.shape)>>)
         IN Loaded(ltf, Tail(history))

\* The socket thread after start() and the authorize response: inside
\* run_forever, no tick in hand.  loop is its place in _run_ws, auth the
\* state of the authorize exchange on the present connection, denied the
\* token an AuthorizationRequired error was received for, reconnected
\* whether the present connection is a later one than the first.  stopping
\* and closing are the places of the dashboard thread inside stop() and
\* inside a manual close, starting its place inside start(); screener is
\* the state of the screener thread (running, dead, or spawned and not yet
\* at its first test of the stop event).
SocketThread ==
    [ pc |-> "idle", symbol |-> "None", price |-> None, stopping |-> FALSE,
      loop |-> "forever", auth |-> "done", denied |-> None,
      reconnected |-> FALSE, closing |-> None,
      screener |-> "running", starting |-> FALSE ]

\* The engine after construction, start() and the authorize response: the
\* socket is up, the balance is known, every configured symbol has its entry.
InitWith(configs, evaluators, times, histories) ==
    /\ config \in configs
    /\ file_config = config
    /\ is_running = TRUE
    /\ sock_connected = TRUE
    /\ stop_event = FALSE
    /\ ws_thread_alive = TRUE
    /\ account_balance = StartBalance
    /\ daily_start_balance = StartBalance
    /\ now \in times
    /\ last_balance_reset_date = DateOf(now)
    /\ contracts = << >>
    /\ symbol_data \in
          { Loaded([ config |-> config, now |-> now,
                     symbol_data |->
                        [sym \in {config.symbols[i] : i \in 1..Len(config.symbols)}
                           |-> NewSymbolData] ], h).symbol_data
            : h \in histories }
    /\ screener_data = EmptyMap
    /\ strat7_cache = EmptyMap
    /\ stats = NoStats
    /\ evaluator \in evaluators
    /\ advances = 0
    /\ broker = << >>
    /\ ws_pc = SocketThread
    /\ sent = << >>
    /\ opens = << >>
    /\ last_op = Op("init", None)
    /\ open_log = {}
    /\ tpsl_log = EmptyMap
    /\ breach_day = None
    /\ candle_cache = EmptyMap
    /\ fetch_log = {}
    /\ evals = << >>
    /\ open_count = EmptyMap

\* Prices are multiples of 100, so that 1 % of a price is a whole number.
Price(k) == k * 100

\* ------------------------------------------- candle keeping (claims C9, C10)
CandleConfigs == {Config("strategy_3", "candle_close")}
CandleShapes == {[open |-> Price(2), close |-> Price(3)]}
\* The granularities the engine requests under the active strategy.
StrategyGrans == {STRATEGY_MAP[config.active_strategy].ltf_granularity,
                  STRATEGY_MAP[config.active_strategy].htf_granularity}
LtfGran == {STRATEGY_MAP[config.active_strategy].ltf_granularity}
InitCandles == InitWith(CandleConfigs, {"engine"}, {DaySecs * 2}, {<< >>})
NextCandles ==
    \/ Advance({60})
    \/ Tick({"R_10"}, {Price(3)}, {Quiet})
    \/ Candles({"R_10"}, StrategyGrans, CandleShapes, 1..MaxBatch, {0, 1})
SpecCandles == InitCandles /\ [][NextCandles]_vars


StrictlyIncreasing(ring) ==
    \A i \in 1..Len(ring) - 1 : ring[i].epoch < ring[i + 1].epoch

\* C9: after any sequence of Candles events and ticks, every candle ring of
\* every symbol is strictly increasing in epoch.
C9_RingsStrictlyIncreasing ==
    \A sym \in DOMAIN symbol_data :
        \A ring \in RingsOf(symbol_data[sym]) : StrictlyIncreasing(ring)

InProgressAligned(c, g) == c = NoCandle \/ c.epoch % g = 0
InProgressCurrent(c, g) == c = NoCandle \/ c.epoch = Floor(now, g)

\* C10: an in-progress LTF or HTF candle has an epoch that is a multiple of
\* its granularity, and right after a tick at time t of its symbol has been
\* processed the epoch is floor(t / g) * g.
C10_InProgressEpoch ==
    \A sym \in DOMAIN symbol_data :
        LET sd == symbol_data[sym]
            strat == STRATEGY_MAP[config.active_strategy]
        IN /\ InProgressAligned(sd.current_ltf_candle, strat.ltf_granularity)
           /\ InProgressAligned(sd.current_htf_candle, strat.htf_granularity)
           /\ (last_op.name = "tick" /\ last_op.on = sym) =>
                 /\ InProgressCurrent(sd.current_ltf_candle, strat.ltf_granularity)
                 /\ InProgressCurrent(sd.current_htf_candle, strat.htf_granularity)

\* ----------------------------------------------- positions and daily caps
\* Indicator verdicts that let a breakout of strategy 2 through.
Trending == [Quiet EXCEPT !.rsi = 60]
Falling == [Quiet EXCEPT !.rsi = 40]

TradeConfigs == {Config("strategy_2", "tick")}
TradePrices == {Price(1), Price(3)}
\* The history answers: a period that opened at 200 and stands at 300.
History == <<[symbol |-> "R_10", shape |-> [open |-> Price(2), close |-> Price(3)]]>>
InitTrade == InitWith(TradeConfigs, {"engine"}, {DaySecs * 2}, {History})
NextTrade ==
    \/ Advance({180})
    \/ Tick({"R_10"}, TradePrices, {Trending, Falling})
    \/ BuyAck
    \/ ContractUpdate({0}, {TRUE})
SpecTrade == InitTrade /\ [][NextTrade]_vars

\* C1: the open-contract map never holds two contracts with the same
\* (symbol, side), whatever ticks, Open intents, BuyAck and ContractUpdate
\* messages came before.
C1_OnePerSymbolSide ==
    \A i, j \in 1..Len(contracts) :
        (contracts[i].symbol = contracts[j].symbol
           /\ contracts[i].side = contracts[j].side) => i = j

\* The second half of C1: _execute_trade sends no buy for a side of a symbol
\* that some contract of the map already has.
NoBuyOverSameSide ==
    [][\A k \in 1..Len(sent') :
          IsBuy(sent'[k]) =>
             ~\E i \in 1..Len(contracts) :
                 /\ contracts[i].symbol = sent'[k].symbol
                 /\ contracts[i].side = SideOf(sent'[k].t)]_vars

InitCaps == InitWith(TradeConfigs, {"engine", "handler"}, {DaySecs * 2}, {History})
NextCaps ==
    \/ Advance({DaySecs})
    \/ Tick({"R_10"}, {Price(3)}, {Trending})
    \/ Balance({StartBalance - 100, StartBalance, StartBalance + 100})
    \/ Start
    \/ Stop
SpecCaps == InitCaps /\ [][NextCaps]_vars

\* C4: once an evaluator has seen the loss cap reached, no Open intent is
\* produced before a tick of a later UTC date, whatever start/stop, balance
\* or configuration events come in between.
C4_NoOpenAfterLossCap ==
    [][opens' # << >> => (breach_day = None \/ DateOf(now') > breach_day)]_vars

\* The daily PnL of the state is at or beyond one of the configured caps.
CapReached == LossCapHit(Cur) \/ ProfitCapHit(Cur)

\* C5: an evaluator run with the daily PnL% at or below -max_daily_loss_pct
\* or at or above max_daily_profit_pct clears the running flag and produces
\* no Open intent.
C5_CapsPauseTrading ==
    [][(last_op'.name = "tick" /\ is_running /\ CapReached
          /\ last_balance_reset_date = DateOf(now))
       => (~is_running' /\ opens' = << >>)]_vars

\* ------------------------------------------------------ one trade a candle
Aligned == [timestamp |-> None, small |-> "BUY", mid |-> "BUY", high |-> "BUY"]
Hesitant == [Aligned EXCEPT !.small = "NEUTRAL"]
Metrics == [NoMetrics EXCEPT !.atr_1m = 1, !.expiry_min = 5]

DedupConfigs == {Config("strategy_2", "tick"), Config("strategy_2", "candle_close"),
                 Config("strategy_7", "tick")}
InitDedup == InitWith(DedupConfigs, {"engine", "handler"},
                      {DaySecs * 2 + 2 * MinuteSecs}, {History})
NextDedup ==
    \/ Advance({MinuteSecs})
    \/ Tick({"R_10"}, TradePrices, {Trending, Falling})
    \/ Candles({"R_10"}, LtfGran, CandleShapes, {1}, {0, 1})
    \/ Strat7Update({"R_10"}, {Aligned, Hesitant}, {Metrics})
SpecDedup == InitDedup /\ [][NextDedup]_vars

InitRace == InitWith(TradeConfigs, {"engine"}, {DaySecs * 2}, {History})
NextRace ==
    \/ Advance({3 * MinuteSecs})
    \/ TickBegin({"R_10"}, TradePrices, {Trending, Falling})
    \/ TickRun({Trending, Falling})
    \/ StopSetFlag
    \/ StopForget
    \/ Start
SpecRace == InitRace /\ [][NextRace]_vars

\* C3: while is_running is false no Open intent is produced and no buy frame
\* is sent, for every interleaving of stop() with a tick being processed.
C3_StoppedMeansNoOpen ==
    [][~is_running =>
          (opens' = << >> /\ \A k \in 1..Len(sent') : ~IsBuy(sent'[k]))]_vars

\* ------------------------------------------------ take-profit and replays
MonitorConfigs == {[Config("strategy_2", "tick") EXCEPT !.tp_enabled = TRUE,
                                                         !.tp_value = 5]}
InitMonitor == InitWith(MonitorConfigs, {"engine"}, {DaySecs * 2}, {History})
NextMonitor ==
    \/ Advance({MinuteSecs})
    \/ Tick({"R_10"}, {Price(3), Price(4)}, {Trending})
    \/ BuyAck
    \/ ContractUpdate({0, 5}, BOOLEAN)
    \/ ReplayUpdate
SpecMonitor == InitMonitor /\ [][NextMonitor]_vars

\* C6: any two sells sent for one contract for a take-profit or stop-loss
\* reason are more than 30 seconds apart.
C6_TpSlSellsSpaced ==
    \A cid \in DOMAIN tpsl_log :
        tpsl_log[cid].gap = None \/ tpsl_log[cid].gap > CloseCooldown

\* C7: a ContractUpdate applied a second time, with no other event and no
\* clock change in between, leaves the contracts map as the first left it.
C7_ReplayIsIdempotent ==
    [][last_op'.name = "replay" => contracts' = contracts]_vars

\* ------------------------------------------------------- configuration
SubmittedConfigs == {Config("strategy_2", "tick"), Config("strategy_2", "candle_close"),
                     Config("strategy_3", "tick")}
InitConfig == InitWith(TradeConfigs, {"engine"}, {DaySecs * 2}, {History})
NextConfig ==
    \/ Advance({3 * MinuteSecs})
    \/ Tick({"R_10"}, {Price(3)}, {Trending})
    \/ BuyAck
    \/ Start
    \/ Stop
    \/ UpdateConfig(SubmittedConfigs)
SpecConfig == InitConfig /\ [][NextConfig]_vars

\* C8: submitting a configuration deep-equal to the stored one changes no
\* engine state and sends no frame.
C8_EqualConfigIsNoOp ==
    [][(last_op'.name = "update_config" /\ last_op'.on[1] = file_config)
       => (engine_vars' = engine_vars /\ stop_event' = stop_event
           /\ ws_thread_alive' = ws_thread_alive /\ file_config' = file_config
           /\ sent' = << >>)]_vars

\* A running, connected engine with a trade behind it has just been handed
\* the configuration it already has.
C8_EqualConfigSubmitted ==
    /\ last_op.name = "update_config" /\ last_op.on[1] = last_op.on[2]
    /\ is_running /\ sock_connected /\ open_log # {}

\* ------------------------------------------- scorecards of ScreenerHandler
\* Percentages of a scorecard are held in tenths: Pct(72) is 72.0 %.
Pct(n) == n * 10

\* round(x, 1) of a value given in hundredths; the result is in tenths.
Round1(x) ==
    LET a == Abs(x)
        q == a \div 10
        r == a % 10
        up == r > 5 \/ (r = 5 /\ q % 2 = 1)
        m == IF up THEN q + 1 ELSE q
    IN IF x < 0 THEN 0 - m ELSE m

\* int(x) of a value given in tenths: the fraction is cut off.
Trunc(x) == IF x < 0 THEN 0 - ((0 - x) \div 10) ELSE x \div 10

\* What the indicators say to one screener run.  total: the summed block
\* scores, in hundredths; fcast: where the last forecast price lies against
\* the last close ("None": no forecast); corr: the echo correlation, in
\* thousandths; small, mid, high, ta_signal: TA recommendations.
Unclear ==
    [ ready |-> TRUE, total |-> 0, fcast |-> "None", corr |-> 0,
      small |-> "NEUTRAL", mid |-> "NEUTRAL", high |-> "NEUTRAL",
      ta_signal |-> "NEUTRAL" ]

\* `if signal == "BUY" and fcast_final <= close: signal = "WAIT"` and its twin
EchoVeto(signal, fcast) ==
    IF signal = "BUY" /\ fcast \in {"equal", "below"} THEN "WAIT"
    ELSE IF signal = "SELL" /\ fcast \in {"equal", "above"} THEN "WAIT"
    ELSE signal

\* self.bot.screener_data[symbol] = data
Publish(e, symbol, data) ==
    [e EXCEPT !.screener_data = WithSymbol(@, symbol, data)]

\* ScreenerHandler.analyze_strategy_5
analyze_strategy_5(e, symbol, i) ==
    LET total_raw == i.total
        confidence == Min(100 * 100, Abs(total_raw))
        is_multiplier == e.config.contract_type = "multiplier"
        loss_streak == IF symbol \in DOMAIN e.symbol_data
                       THEN e.symbol_data[symbol].consecutive_losses ELSE 0
        base == IF is_multiplier THEN 68 ELSE 72
        threshold == IF loss_streak >= 3 THEN base + (loss_streak - 2) * 5 ELSE base
        signal == IF confidence >= threshold * 100
                  THEN (IF total_raw > 0 THEN "BUY" ELSE "SELL") ELSE "WAIT"
    IN IF ~i.ready THEN e
       ELSE Publish(e, symbol,
              [ signal |-> EchoVeto(signal, i.fcast),
                direction |-> IF total_raw > 0 THEN "CALL" ELSE "PUT",
                confidence |-> Round1(confidence), threshold |-> Pct(threshold),
                last_update |-> e.now ])

\* ScreenerHandler.analyze_strategy_6; i.total is total_score in units of
\* 16/10000, so that abs(total_score) / 16 * 100 is i.total hundredths.
analyze_strategy_6(e, symbol, i) ==
    LET total_score == i.total
        confidence == Min(100 * 100, Abs(total_score))
        signal == IF confidence >= 60 * 100
                  THEN (IF total_score > 0 THEN "BUY" ELSE "SELL") ELSE "WAIT"
    IN IF ~i.ready THEN e
       ELSE Publish(e, symbol,
              [ signal |-> EchoVeto(signal, i.fcast),
                direction |-> IF total_score > 0 THEN "CALL" ELSE "PUT",
                confidence |-> Round1(confidence), threshold |-> Pct(60),
                last_update |-> e.now ])

\* `"BUY" in rec`, `"SELL" in rec`, `"STRONG" in rec`
HasBuy(rec) == rec \in {"BUY", "STRONG_BUY"}
HasSell(rec) == rec \in {"SELL", "STRONG_SELL"}
HasStrong(rec) == rec \in {"STRONG_BUY", "STRONG_SELL"}

\* ScreenerHandler.update_strat7_analysis: the scorecard has no threshold.
update_strat7_analysis(e, symbol, i) ==
    LET cfg == e.config
        rec_small == IF cfg.strat7_small_tf = "OFF" THEN "OFF" ELSE i.small
        rec_mid == IF cfg.strat7_mid_tf = "OFF" THEN "OFF" ELSE i.mid
        rec_high == IF cfg.strat7_high_tf = "OFF" THEN "OFF" ELSE i.high
        active_recs == SelectSeq(<<rec_small, rec_mid, rec_high>>,
                                 LAMBDA r : r # "OFF")
        n == Len(active_recs)
        all_buy == \A k \in 1..n : HasBuy(active_recs[k])
        all_sell == \A k \in 1..n : HasSell(active_recs[k])
        signal == IF n = 0 THEN "WAIT"
                  ELSE IF all_buy THEN "BUY"
                  ELSE IF all_sell THEN "SELL" ELSE "WAIT"
        strong == \E k \in 1..n : HasStrong(active_recs[k])
        base == IF signal = "WAIT" THEN 0 ELSE IF strong THEN 90 ELSE 80
        agrees == (signal = "BUY" /\ i.fcast = "above")
                  \/ (signal = "SELL" /\ i.fcast = "below")
        \* confidence + correlation * 10, in hundredths
        confidence == IF agrees THEN Min(100 * 100, base * 100 + i.corr)
                      ELSE base * 100
    IN Publish(e, symbol,
         [ signal |-> signal,
           direction |-> IF signal = "BUY" THEN "CALL"
                         ELSE IF signal = "SELL" THEN "PUT" ELSE "NEUTRAL",
           confidence |-> Round1(confidence), threshold |-> Missing,
           summary_small |-> rec_small, summary_mid |-> rec_mid,
           summary_high |-> rec_high, last_update |-> e.now ])

\* ScreenerHandler.analyze_strategy_4
analyze_strategy_4(e, symbol, i) ==
    LET confidence == Trunc(i.corr)
    IN Publish(e, symbol,
         [ signal |-> "WAIT",
           direction |-> IF i.fcast = "None" THEN "NEUTRAL"
                         ELSE IF i.fcast = "above" THEN "CALL" ELSE "PUT",
           confidence |-> Round1(confidence * 100), threshold |-> Pct(50),
           last_update |-> e.now ])

\* ScreenerHandler.analyze_crossover_strategy
analyze_crossover_strategy(e, symbol, i) ==
    LET sd == e.symbol_data[symbol]
        known == symbol \in DOMAIN e.symbol_data
        htf_open == IF known THEN sd.htf_open ELSE None
        price == IF known THEN sd.last_tick ELSE 0
    IN IF known /\ price = None
       THEN \* `price > htf_open` and `price > 0` compare None with a number
            e
       ELSE Publish(e, symbol,
              [ signal |-> i.ta_signal,
                direction |-> IF ~Truthy(htf_open) THEN "NEUTRAL"
                              ELSE IF price > htf_open THEN "CALL" ELSE "PUT",
                confidence |-> Round1(i.corr * 10), threshold |-> Pct(0),
                last_update |-> e.now ])

\* ScreenerHandler.update_screener
update_screener(e, symbol, i) ==
    LET strat_key == e.config.active_strategy
    IN IF strat_key = "strategy_5" THEN analyze_strategy_5(e, symbol, i)
       ELSE IF strat_key = "strategy_6" THEN analyze_strategy_6(e, symbol, i)
       ELSE IF strat_key = "strategy_7" THEN update_strat7_analysis(e, symbol, i)
       ELSE IF strat_key = "strategy_4" THEN analyze_strategy_4(e, symbol, i)
       ELSE analyze_crossover_strategy(e, symbol, i)

\* ScreenerHandler.background_loop: one submitted update_screener task.
HandlerScreener(symbols, inputs) ==
    /\ Idle /\ ~stop_event
    /\ \E symbol \in symbols, i \in inputs :
          Commit(update_screener(Cur, symbol, i), Op("screener", symbol),
                 breach_day, broker)
    /\ UNCHANGED <<file_config, evaluator, now, advances, ws_pc>>

\* A configuration with the three timeframes of strategy 7.
Config7(small, mid, high) ==
    [k \in DOMAIN Config("strategy_7", "tick") \cup {"strat7_mid_tf", "strat7_high_tf"} |->
        IF k = "strat7_small_tf" THEN small
        ELSE IF k = "strat7_mid_tf" THEN mid
        ELSE IF k = "strat7_high_tf" THEN high
        ELSE Config("strategy_7", "tick")[k]]

\* A configuration of the strategy with the given contract type.
ConfigOf(strategy, contract_type) ==
    [Config7("60", "300", "3600") EXCEPT !.active_strategy = strategy,
                                         !.contract_type = contract_type]

\* The symbol's entry after `streak` losing trades in a row.
AfterLosses(sd, streak) ==
    [sym \in DOMAIN sd |-> [sd[sym] EXCEPT !.consecutive_losses = streak]]

ScreenerConfigs ==
    {ConfigOf(s, "rise_fall") : s \in Strategies}
      \cup {ConfigOf("strategy_5", "multiplier"), Config7("60", "OFF", "OFF")}
ScreenerInputs ==
    { [Unclear EXCEPT !.total = t, !.fcast = f, !.corr = c, !.small = r,
                      !.mid = r, !.high = r, !.ta_signal = r]
      : t \in {0 - 7196, 6004, 7195, 7205, 8700},
        f \in {"None", "above", "below"},
        c \in {0 - 850, 655},
        r \in {"BUY", "STRONG_SELL", "NEUTRAL"} }

\* The engine with a history loaded and a run of losses behind it.
InitScreener ==
    /\ config \in ScreenerConfigs
    /\ file_config = config
    /\ is_running = TRUE
    /\ sock_connected = TRUE
    /\ stop_event = FALSE
    /\ ws_thread_alive = TRUE
    /\ account_balance = StartBalance
    /\ daily_start_balance = StartBalance
    /\ now = DaySecs * 2
    /\ last_balance_reset_date = DateOf(now)
    /\ contracts = << >>
    /\ symbol_data \in
          { AfterLosses(
               Loaded([ config |-> config, now |-> now,
                        symbol_data |-> [sym \in {"R_10"} |-> NewSymbolData] ],
                      History).symbol_data, streak)
            : streak \in {0, 3} }
    /\ screener_data = EmptyMap
    /\ strat7_cache = EmptyMap
    /\ stats = NoStats
    /\ evaluator = "handler"
    /\ advances = 0
    /\ broker = << >>
    /\ ws_pc = SocketThread
    /\ sent = << >>
    /\ opens = << >>
    /\ last_op = Op("init", None)
    /\ open_log = {}
    /\ tpsl_log = EmptyMap
    /\ breach_day = None
    /\ candle_cache = EmptyMap
    /\ fetch_log = {}
    /\ evals = << >>
    /\ open_count = EmptyMap
NextScreener ==
    \/ Advance({MinuteSecs})
    \/ HandlerScreener({"R_10"}, ScreenerInputs)
SpecScreener == InitScreener /\ [][NextScreener]_vars

\* C11: every scorecard in screener_data whose signal is not WAIT carries a
\* threshold and has |confidence| >= threshold, whichever analyzer of
\* ScreenerHandler (crossover 1-3, 4, 5, 6 or 7) wrote it.
C11_SignalMeansConfident ==
    \A sym \in DOMAIN screener_data :
        LET card == screener_data[sym]
        IN ("signal" \in DOMAIN card /\ card.signal # "WAIT") =>
              (card.threshold # Missing /\ Abs(card.confidence) >= card.threshold)

\* --------------------------------------------------- force-close timeout
ForceConfigs == {[Config("strategy_2", "tick") EXCEPT !.force_close_enabled = TRUE]}
InitForce == InitWith(ForceConfigs, {"engine"}, {DaySecs * 2}, {History})
NextForce ==
    \/ Advance({29, 30, 60, 61})
    \/ Tick({"R_10"}, {Price(3)}, {Trending})
    \/ BuyAck
    \/ ContractUpdate({0}, BOOLEAN)
SpecForce == InitForce /\ [][NextForce]_vars

\* A sell frame for contract cid is among the frames.
SellSent(frames, cid) == \E k \in 1..Len(frames) : frames[k] = SellFrame(cid)

\* The tick of the step finds contract c of its symbol not yet closing and
\* at least force_close_duration seconds old.
ForceCloseDue(c) ==
    /\ last_op'.name = "tick" /\ c.symbol = last_op'.on
    /\ config.force_close_enabled /\ Truthy(Get(c.purchase_time))
    /\ ~c.is_closing
    /\ now >= c.purchase_time + config.force_close_duration

\* The tick of the step comes 30 seconds after the timeout (t = 1090 for a
\* purchase at 1000) and finds contract c of its symbol closing, its sell
\* sent at an earlier moment.
RetryDue(c) ==
    /\ last_op'.name = "tick" /\ c.symbol = last_op'.on
    /\ config.force_close_enabled /\ Truthy(Get(c.purchase_time))
    /\ c.is_closing
    /\ Truthy(Get(c.last_close_attempt)) /\ c.last_close_attempt < now
    /\ now = c.purchase_time + config.force_close_duration + CloseCooldown

\* C12: with force_close_enabled and force_close_duration = 60, the first
\* tick of the symbol at or after purchase_time + 60 sets is_closing and sends
\* a sell for the contract, and a tick at purchase_time + 90 that finds the
\* contract still closing sends the sell again.
C12_ForceCloseThenRetry ==
    [][\A i \in 1..Len(contracts) :
          LET c == contracts[i]
          IN /\ ForceCloseDue(c) =>
                   /\ Has(contracts', c.id) /\ At(contracts', c.id).is_closing
                   /\ SellSent(sent', c.id)
             /\ RetryDue(c) => SellSent(sent', c.id)]_vars

\* ------------------------------------------------- the socket and its loop
AuthorizeFrame == SimpleFrame("authorize")
BalanceFrame == SimpleFrame("balance")
ContractsFrame == SimpleFrame("proposal_open_contract")

\* TradingBotEngine.on_open
on_open(e) == Send([e EXCEPT !.sock_connected = TRUE], AuthorizeFrame)

\* The history requests of the authorize branch for one symbol.
AuthorizeGrans(strat_key) ==
    LET strat == STRATEGY_MAP[strat_key]
    IN <<strat.ltf_granularity, strat.htf_granularity>>
         \o (IF strat_key \in {"strategy_1", "strategy_2"} THEN <<14400>> ELSE << >>)
         \o ExtraGrans(strat_key)

RECURSIVE AuthorizeSubscribe(_, _)
\* on_message, msg_type == 'authorize': the per-symbol loop under is_running
AuthorizeSubscribe(e, symbols) ==
    IF symbols = << >> THEN e
    ELSE LET sym == Head(symbols)
             strat_key == e.config.active_strategy
             e1 == Send(_init_symbol_data(e, sym), TicksFrame(sym))
             e2 == FetchAll(e1, sym, AuthorizeGrans(strat_key))
             e3 == IF ExtraGrans(strat_key) # << >>
                   THEN Send(e2, Frame("contracts_for", sym, None, None)) ELSE e2
         IN AuthorizeSubscribe(IF strat_key = "strategy_7" THEN e1 ELSE e3,
                               Tail(symbols))

\* on_message, msg_type == 'authorize'
on_authorize(e, balance) ==
    LET first == e.daily_start_balance = 0
        e1 == [e EXCEPT !.account_balance = balance,
                        !.daily_start_balance = IF first THEN balance ELSE @,
                        !.last_balance_reset_date = IF first THEN DateOf(e.now) ELSE @]
        e2 == Send(Send(e1, BalanceFrame), ContractsFrame)
    IN IF e.is_running THEN AuthorizeSubscribe(e2, e.config.symbols) ELSE e2

\* on_message, 'error' in data
on_error(e, code) ==
    IF code = "AuthorizationRequired" THEN [e EXCEPT !.is_running = FALSE] ELSE e

\* TradingBotEngine.stop_bot
stop_bot(e) == [e EXCEPT !.stop_event = TRUE, !.sock_connected = FALSE]

\* The peer closes the socket.
PeerClose ==
    /\ Idle /\ sock_connected /\ ws_pc.loop = "forever"
    /\ Commit([Cur EXCEPT !.sock_connected = FALSE], Op("peer_close", None),
              breach_day, broker)
    /\ UNCHANGED <<file_config, evaluator, now, advances, ws_pc>>

\* _run_ws: run_forever returns once the socket is closed; the thread
\* sleeps 5 seconds unless stop_event is set and goes to the top of the loop.
LoopReturn ==
    /\ Idle /\ ~sock_connected /\ ws_pc.loop = "forever"
    /\ Commit(Cur, Op("loop_return", None), breach_day, broker)
    /\ ws_pc' = [ws_pc EXCEPT !.loop = "top", !.auth = "none"]
    /\ UNCHANGED <<file_config, evaluator, now, advances>>

\* _run_ws: `while not self.stop_event.is_set()` and the token test.  With
\* no token the thread sleeps and tests again, which changes nothing.
LoopCheck ==
    /\ ws_pc.loop = "top"
    /\ stop_event \/ Truthy(config.deriv_api_token)
    /\ Commit([Cur EXCEPT !.ws_thread_alive = IF stop_event THEN FALSE ELSE @],
              Op("loop_check", None), breach_day, broker)
    /\ ws_pc' = [ws_pc EXCEPT !.loop = IF stop_event THEN "exited" ELSE "connect"]
    /\ UNCHANGED <<file_config, evaluator, now, advances>>

\* _run_ws: a new WebSocketApp, run_forever, the broker accepts, on_open.
LoopConnect ==
    /\ ws_pc.loop = "connect"
    /\ Commit(on_open(Cur), Op("connect", None), breach_day, broker)
    /\ ws_pc' = [ws_pc EXCEPT !.loop = "forever", !.auth = "sent",
                              !.reconnected = TRUE]
    /\ UNCHANGED <<file_config, evaluator, now, advances>>

\* The authorize response.
Authorized(balances) ==
    /\ Idle /\ sock_connected /\ ws_pc.auth = "sent"
    /\ \E b \in balances :
          Commit(on_authorize(Cur, b), Op("authorize", b), breach_day, broker)
    /\ ws_pc' = [ws_pc EXCEPT !.auth = "done"]
    /\ UNCHANGED <<file_config, evaluator, now, advances>>

\* An error response of the broker.
ApiError(codes) ==
    /\ Idle /\ sock_connected
    /\ \E code \in codes :
          /\ Commit(on_error(Cur, code), Op("error", code), breach_day, broker)
          /\ ws_pc' = IF code = "AuthorizationRequired"
                      THEN [ws_pc EXCEPT !.denied = config.deriv_api_token]
                      ELSE ws_pc
    /\ UNCHANGED <<file_config, evaluator, now, advances>>

\* app.shutdown: stop_bot()
StopBot ==
    /\ ~stop_event
    /\ Commit(stop_bot(Cur), Op("stop_bot", None), breach_day, broker)
    /\ UNCHANGED <<file_config, evaluator, now, advances, ws_pc>>

\* ------------------------------------------------------ the socket session
SessionConfigs == {Config("strategy_2", "tick"), Config("strategy_5", "tick")}
Tokens == {1, 2}
ErrorCodes == {"AuthorizationRequired", "RateLimit"}

InitSession == InitWith(SessionConfigs, {"engine"}, {DaySecs * 2}, {History})
NextSession ==
    \/ PeerClose \/ LoopReturn \/ LoopCheck \/ LoopConnect
    \/ Authorized({StartBalance})
    \/ ApiError(ErrorCodes)
    \/ StopBot \/ Start \/ Stop
    \/ UpdateConfig({[c EXCEPT !.deriv_api_token = t] :
                        c \in SessionConfigs, t \in Tokens})
SpecSession == InitSession /\ [][NextSession]_vars

\* The socket thread is scheduled and the broker answers an authorize frame.
FairSession ==
    /\ SpecSession
    /\ WF_vars(LoopReturn) /\ WF_vars(LoopCheck) /\ WF_vars(LoopConnect)
    /\ WF_vars(Authorized({StartBalance}))

\* The frames a session owes the broker once it is authorized again.
Resubscribed(frames) ==
    /\ InSeq(BalanceFrame, frames) /\ InSeq(ContractsFrame, frames)
    /\ \A i \in 1..Len(config.symbols) :
          LET sym == config.symbols[i]
              strat == STRATEGY_MAP[config.active_strategy]
          IN /\ InSeq(TicksFrame(sym), frames)
             /\ InSeq(HistoryFrame(sym, strat.ltf_granularity), frames)
             /\ InSeq(HistoryFrame(sym, strat.htf_granularity), frames)

\* C13: after the peer closes the socket while stop is not set, the
\* reconnect loop eventually sends authorize again, and the authorize
\* response of a reconnected session is answered with the balance and
\* open-contract subscriptions, ticks for every configured symbol and the
\* history requests of the active strategy, whatever the engine state was.
C13_ReconnectResubscribes ==
    /\ (last_op.name = "peer_close" /\ ~stop_event)
          ~> (stop_event \/ InSeq(AuthorizeFrame, sent))
    /\ []((last_op.name = "authorize" /\ ws_pc.reconnected) => Resubscribed(sent))

\* _run_ws opens a connection in this step.
Connects == ws_pc.loop = "connect" /\ ws_pc'.loop = "forever"

\* C16: once stop_bot has set stop_event, and for as long as it stays set,
\* the socket loop opens no connection, whatever the loop was doing when
\* stop_bot ran, and the loop terminates; a close by the broker is followed
\* by a reconnect only while stop_event is not set.
C16_StopBotEndsSession ==
    /\ [][(stop_event /\ stop_event') => ~Connects]_vars
    /\ stop_event ~> (ws_pc.loop = "exited" \/ ~stop_event)

\* The step handles an error response with this code.
ErrorStep(code) == last_op'.name = "error" /\ last_op'.on = code

\* C17: an AuthorizationRequired error clears the running flag, and from
\* then until new credentials are applied the session sends no authorize
\* frame; an error with any other code leaves the running flag as it was.
C17_AuthErrorStopsSession ==
    [][/\ ErrorStep("AuthorizationRequired") => ~is_running'
       /\ (\E code \in ErrorCodes \ {"AuthorizationRequired"} : ErrorStep(code))
             => is_running' = is_running
       /\ (ws_pc.denied # None /\ ws_pc'.denied # None)
             => ~InSeq(AuthorizeFrame, sent')]_vars

\* ------------------------------------------- trading across a reconnection
InitResume == InitWith(TradeConfigs, {"engine", "handler"}, {DaySecs * 2}, {History})
NextResume ==
    \/ Advance({180})
    \/ Tick({"R_10"}, TradePrices, {Trending, Falling})
    \/ Candles({"R_10"}, LtfGran, CandleShapes, {1}, {0, 1})
    \/ PeerClose \/ LoopReturn \/ LoopCheck \/ LoopConnect
    \/ Authorized({StartBalance})
SpecResume == InitResume /\ [][NextResume]_vars

\* The steps from the loss of the socket to the handled authorize response.
ReconnectStep ==
    last_op'.name \in {"peer_close", "loop_return", "loop_check", "connect",
                       "authorize"}

\* C14: a socket drop followed by reconnect and re-authorization leaves the
\* last_trade_ltf of every symbol unchanged, and a tick after the reconnect
\* in an LTF epoch that has already produced an Open intent produces no
\* second one.
C14_DedupSurvivesReconnect ==
    [][/\ ReconnectStep =>
             \A sym \in DOMAIN symbol_data :
                 /\ sym \in DOMAIN symbol_data'
                 /\ symbol_data'[sym].last_trade_ltf = symbol_data[sym].last_trade_ltf
       /\ (last_op'.name = "tick" /\ ws_pc.reconnected) =>
             \A i \in 1..Len(opens') :
                 <<opens'[i].symbol, opens'[i].epoch>> \notin open_log]_vars

\* The first tick after a reconnection, in a candle traded before the drop,
\* met a breakout and produced nothing.
C14_SignalAfterReconnectDropped ==
    /\ last_op.name = "tick" /\ opens = << >> /\ is_running
    /\ ws_pc.reconnected /\ ws_pc.auth = "done"
    /\ LET sd == symbol_data[last_op.on]
       IN /\ <<last_op.on, sd.current_ltf_candle.epoch>> \in open_log
          /\ sd.last_trade_ltf = sd.current_ltf_candle.epoch
          /\ Breakout(sd.current_ltf_candle, sd.htf_open, sd.last_tick) # "None"

\* ------------------------------------------------------ contract lifecycle
Outcomes == {0 - 5, 7}
InitLifecycle == InitWith(TradeConfigs, {"engine"}, {DaySecs * 2}, {History})
NextLifecycle ==
    \/ Advance({MinuteSecs})
    \/ Tick({"R_10"}, TradePrices, {Trending})
    \/ BuyAck
    \/ ContractUpdate(Outcomes, BOOLEAN)
    \/ ReplayUpdate
SpecLifecycle == InitLifecycle /\ [][NextLifecycle]_vars

\* The step handles a contract update or its replay; the message is last_op'.on.
UpdateStep == last_op'.name \in {"contract_update", "replay"}

\* C19: the contract a BuyAck creates has status Opened, and a contract
\* that has received a ContractUpdate carrying entry_tick has status Active:
\* none remains Opened.
C19_EntryTickActivates ==
    [][/\ last_op'.name = "buy" =>
             (Has(contracts', last_op'.on)
                /\ At(contracts', last_op'.on).status = "Opened")
       /\ (UpdateStep /\ ~last_op'.on.is_sold /\ Truthy(last_op'.on.entry_tick)) =>
             (Has(contracts', last_op'.on.contract_id) =>
                 At(contracts', last_op'.on.contract_id).status = "Active")]_vars

\* -------------------------------------------------------- closed contracts
InitClose == InitWith(TradeConfigs, {"engine"}, {DaySecs * 2}, {History})
NextClose ==
    \/ Advance({180})
    \/ Tick({"R_10"}, TradePrices, {Trending})
    \/ BuyAck
    \/ ContractUpdate(Outcomes, {TRUE})
    \/ ReplayUpdate
SpecClose == InitClose /\ [][NextClose]_vars

\* The win/loss counters of the engine and the streaks of a symbol.
Counters(st, sd) ==
    [ total_trade_loss |-> st.total_trade_loss, losses_count |-> st.losses_count,
      wins_count |-> st.wins_count, consecutive_losses |-> sd.consecutive_losses,
      consecutive_wins |-> sd.consecutive_wins ]

SingleConfigs == {Config7("60", "OFF", "OFF"), Config7("60", "300", "3600")}
SingleInputs == {[Unclear EXCEPT !.small = r, !.mid = r, !.high = r]
                    : r \in {"BUY", "NEUTRAL"}}
InitSingle == InitWith(SingleConfigs, {"handler"}, {DaySecs * 2}, {History})
NextSingle ==
    \/ Advance({MinuteSecs})
    \/ Tick({"R_10"}, {Price(3)}, {Quiet})
    \/ HandlerScreener({"R_10"}, SingleInputs)
    \/ Strat7Update({"R_10"}, {Aligned, Hesitant}, {Metrics})
SpecSingle == InitSingle /\ [][NextSingle]_vars

\* Only the small timeframe of strategy 7 is enabled.
SingleTF(cfg) ==
    /\ cfg.active_strategy = "strategy_7" /\ cfg.strat7_small_tf # "OFF"
    /\ cfg.strat7_mid_tf = "OFF" /\ cfg.strat7_high_tf = "OFF"

\* The last screener update of the symbol reported this recommendation.
Shown(sym, rec) ==
    /\ sym \in DOMAIN screener_data
    /\ "signal" \in DOMAIN screener_data[sym]
    /\ screener_data[sym].signal = rec

\* C15: under strategy 7 with only the small timeframe enabled, a run of
\* screener updates reporting BUY produces one buy, at its start: the tick
\* evaluated while BUY is reported and no Open intent has been produced yet
\* produces exactly one, a buy; a tick evaluated while neither BUY nor SELL
\* is reported produces none.
C15_SingleTimeframeBuysOnce ==
    [][(last_op'.name = "tick" /\ SingleTF(config) /\ is_running) =>
          /\ (Shown(last_op'.on, "BUY") /\ open_log = {}) =>
                (Len(opens') = 1 /\ opens'[1].side = "buy")
          /\ (~Shown(last_op'.on, "BUY") /\ ~Shown(last_op'.on, "SELL")) =>
                opens' = << >>]_vars

\* ------------------------------------------------ the candle cache of ta_handler
\* What the broker does with a ticks_history request of the fetcher.
Replies == {"candles", "error", "empty", "unreachable"}

\* ta_handler._fetch_candles.  A data frame is modelled by the time it was
\* fetched at; the result carries the frame returned (NoFrame when the call
\* raises) and whether a request went to the broker.
NoFrame == [fetched |-> None]
_fetch_candles(e, symbol, granularity, reply) ==
    LET cache_key == <<symbol, granularity>>
        cached == cache_key \in DOMAIN e.candle_cache
        entry == e.candle_cache[cache_key]
        fresh == [fetched |-> e.now]
        asked == [e EXCEPT !.fetch_log =
                     @ \cup {<<symbol, granularity, Floor(e.now, granularity)>>}]
    IN IF cached /\ e.now - entry.ts < granularity
       THEN [e |-> e, df |-> entry.df, requested |-> FALSE]
       ELSE IF reply # "candles"
       THEN [e |-> asked, df |-> IF cached THEN entry.df ELSE NoFrame,
             requested |-> TRUE]
       ELSE [e |-> [asked EXCEPT !.candle_cache =
                       WithSymbol(@, cache_key, [ts |-> e.now, df |-> fresh])],
             df |-> fresh, requested |-> TRUE]

\* One call of fetch_candles by an analysis.
Fetch(symbols, grans, replies) ==
    /\ \E symbol \in symbols, g \in grans, reply \in replies :
          LET r == _fetch_candles(Cur, symbol, g, reply)
          IN Commit(r.e, Op("fetch", [symbol |-> symbol, granularity |-> g,
                                      reply |-> reply, df |-> r.df,
                                      requested |-> r.requested]),
                    breach_day, broker)
    /\ UNCHANGED <<file_config, evaluator, now, advances, ws_pc>>

InitFetch == InitWith(TradeConfigs, {"engine"}, {DaySecs * 2}, {History})
NextFetch ==
    \/ Advance({20, 50})
    \/ Fetch({"R_10"}, {MinuteSecs, 300}, Replies)
SpecFetch == InitFetch /\ [][NextFetch]_vars

\* C18: the fetcher sends at most one request per (symbol, granularity) and
\* candle period, and with the broker answering, a call made after a new
\* candle period has started does not return data fetched in an earlier one.
C18_OneFetchPerPeriod ==
    [][last_op'.name = "fetch" =>
          LET c == last_op'.on
              period == Floor(now, c.granularity)
          IN /\ c.requested => <<c.symbol, c.granularity, period>> \notin fetch_log
             /\ c.reply = "candles" => c.df.fetched >= period]_vars

\* -------------------------------------------------- the retry of a close
\* The tick of the step finds contract c of its symbol closing, not yet a
\* ghost, on a connected socket, more than 30 seconds after the last sell
\* request for it.
CloseRetryDue(c) ==
    /\ last_op'.name = "tick" /\ c.symbol = last_op'.on
    /\ sock_connected /\ c.is_closing
    /\ ~(Truthy(Get(c.expiry_time)) /\ now > c.expiry_time + GhostGrace)
    /\ c.id \in 1..Len(broker) /\ ~broker[c.id].closed
    /\ broker[c.id].last_sell # None
    /\ now - broker[c.id].last_sell > CloseCooldown

\* C21: for a contract with is_closing set, on a connected socket, every
\* tick of its symbol that comes more than 30 seconds after the last sell
\* request sends the sell again with the same contract id, until the
\* terminal update arrives, whatever contract updates came in between.
C21_CloseRetriedUntilSold ==
    [][\A i \in 1..Len(contracts) :
          CloseRetryDue(contracts[i]) => SellSent(sent', contracts[i].id)]_vars

\* ------------------------------------------------- contracts past expiry
GhostConfigs == MonitorConfigs
InitGhost == InitWith(GhostConfigs, {"engine"}, {DaySecs * 2}, {History})
NextGhost ==
    \/ Advance({MinuteSecs, HourSecs + 61})
    \/ Tick({"R_10"}, {Price(3), Price(4)}, {Trending})
    \/ BuyAck
    \/ ContractUpdate({0}, {FALSE})
SpecGhost == InitGhost /\ [][NextGhost]_vars

\* The contract is more than a minute past its expiry when a tick of its
\* symbol arrives.
GhostOnTick(c) ==
    /\ last_op'.name = "tick" /\ c.symbol = last_op'.on
    /\ Truthy(Get(c.expiry_time)) /\ now > c.expiry_time + GhostGrace

\* C22: a tick of a symbol removes from contracts every contract of that
\* symbol whose expiry_time is set and lies more than 60 seconds in the past,
\* and sends no sell for it.
C22_GhostRemovedWithoutSell ==
    [][\A i \in 1..Len(contracts) :
          GhostOnTick(contracts[i]) =>
              (~Has(contracts', contracts[i].id)
               /\ ~SellSent(sent', contracts[i].id))]_vars

\* ------------------------------------------------- reversal of a position
\* Contract c is on the symbol of the intent and on the other side.
Opposed(c, intent) ==
    /\ c.symbol = intent.symbol
    /\ c.side = IF intent.side = "buy" THEN "short" ELSE "long"

\* The frames hold a sell of contract cid and, after it, a buy on the symbol.
SellThenBuy(frames, cid, symbol) ==
    \E a, b \in 1..Len(frames) :
        /\ a < b /\ frames[a] = SellFrame(cid)
        /\ IsBuy(frames[b]) /\ frames[b].symbol = symbol

\* C23: an Open intent for a symbol that has a contract on the opposite side
\* sends, in the same evaluation, a sell for that contract and after it the
\* buy.
C23_ReversalSellsThenBuys ==
    [][\A n \in 1..Len(opens'), i \in 1..Len(contracts) :
          (Opposed(contracts[i], opens'[n]) /\ Has(contracts', contracts[i].id)) =>
              SellThenBuy(sent', contracts[i].id, opens'[n].symbol)]_vars

\* ------------------------------------------------- the duration of a buy
\* custom_expiry is a number of seconds the dashboard submits, or None for
\* 'default'.
ExpiryConfigs == {Config("strategy_4", "candle_close"),
                  [Config("strategy_4", "candle_close") EXCEPT !.custom_expiry = 5]}
\* The zone analysis of strategy 4 calls a bounce upwards.
Bounce == [Quiet EXCEPT !.s4 = "buy"]
InitExpiry == InitWith(ExpiryConfigs, {"engine"}, {DaySecs * 2}, {History})
NextExpiry ==
    \/ Advance({MinuteSecs})
    \/ Tick({"R_10"}, TradePrices, {Quiet, Bounce})
    \/ BuyAck
    \/ ContractUpdate({0}, {TRUE})
SpecExpiry == InitExpiry /\ [][NextExpiry]_vars

\* C24: every buy frame of a CALL or PUT contract carries a duration of at
\* least 15 seconds, under every strategy and every custom_expiry.
C24_DurationAtLeastFifteen ==
    [][\A k \in 1..Len(sent') :
          sent'[k].t \in {"CALL", "PUT"} => sent'[k].arg >= 15]_vars

\* ------------------------------------------------------ multiplier orders
MultiplierConfigs == {ConfigOf("strategy_5", "multiplier"),
                      ConfigOf("strategy_5", "rise_fall")}
\* A scorecard above its threshold, calling the symbol up.
Scorecard == [Metrics EXCEPT !.confidence = 80, !.threshold = 72,
                             !.direction = "CALL"]
\* The structure, momentum and pattern tests of strategy 5 all pass.
Structured == [Quiet EXCEPT !.structure = TRUE]
InitMultiplier == InitWith(MultiplierConfigs, {"engine"}, {DaySecs * 2}, {History})
NextMultiplier ==
    \/ Advance({MinuteSecs})
    \/ ScreenerUpdate({"R_10"}, {Scorecard})
    \/ Tick({"R_10"}, {Price(3)}, {Structured})
    \/ BuyAck
    \/ ContractUpdate({0}, {TRUE})
SpecMultiplier == InitMultiplier /\ [][NextMultiplier]_vars

\* The step produces an Open intent for a symbol without a contract, under
\* strategy 5 with multiplier contracts, on a connected socket.
MultiplierIntent(n) ==
    /\ config.active_strategy = "strategy_5"
    /\ config.contract_type = "multiplier"
    /\ sock_connected
    /\ \A i \in 1..Len(contracts) : contracts[i].symbol # opens'[n].symbol

\* C25: under strategy 5 with contract_type multiplier, an Open intent for a
\* symbol without a contract sends a buy frame of contract type MULTUP or
\* MULTDOWN for that symbol.
C25_MultiplierIntentBuys ==
    [][\A n \in 1..Len(opens') :
          MultiplierIntent(n) =>
              \E k \in 1..Len(sent') :
                  /\ sent'[k].t \in {"MULTUP", "MULTDOWN"}
                  /\ sent'[k].symbol = opens'[n].symbol]_vars

\* --------------------------------------- configuration updates and socket
\* The step is a configuration update that leaves the API token as it is.
TokenKept ==
    /\ last_op'.name = "update_config"
    /\ last_op'.on[1].deriv_api_token = config.deriv_api_token
    /\ config'.deriv_api_token = config.deriv_api_token

\* C26: a configuration update that does not change the API token never
\* closes the broker socket, in PassiveMonitoring and in Trading alike.
C26_TokenKeptSocketKept ==
    [][(TokenKept /\ sock_connected) => sock_connected']_vars

\* ------------------------------------------- symbols of a configuration
SymbolLists == {<<"R_10">>, <<"R_10", "R_25">>}
SymbolConfigs ==
    {[Config(s, "tick") EXCEPT !.symbols = syms] :
        s \in {"strategy_2", "strategy_3"}, syms \in SymbolLists}
InitSymbols == InitWith(TradeConfigs, {"engine"}, {DaySecs * 2}, {History})
NextSymbols ==
    \/ Advance({MinuteSecs})
    \/ Tick(Symbols, {Price(3)}, {Quiet})
    \/ Start
    \/ Stop
    \/ UpdateConfig(SymbolConfigs)
SpecSymbols == InitSymbols /\ [][NextSymbols]_vars

\* Symbol sym joins the configuration in this step: it has a SymbolState,
\* a tick subscription and the history requests of the strategy.
SymbolAdded(sym) ==
    LET strat == STRATEGY_MAP[config'.active_strategy]
    IN /\ sym \in DOMAIN symbol_data'
       /\ InSeq(TicksFrame(sym), sent')
       /\ InSeq(HistoryFrame(sym, strat.ltf_granularity), sent')
       /\ InSeq(HistoryFrame(sym, strat.htf_granularity), sent')

\* Symbol sym leaves the configuration in this step: its subscription, where
\* one is known, is forgotten and its SymbolState is deleted.
SymbolRemoved(sym) ==
    /\ sym \notin DOMAIN symbol_data'
    /\ (sym \in DOMAIN symbol_data /\ Truthy(symbol_data[sym].subscription_id))
          => InSeq(ForgetFrame(symbol_data[sym].subscription_id), sent')

\* C27: after a configuration update on a connected socket every added
\* symbol has a SymbolState, a tick subscription and history requests, and
\* every removed symbol has had forget sent and its SymbolState deleted,
\* whatever else the update changes, the active strategy included.
C27_SymbolsReconciled ==
    [][(TokenKept /\ sock_connected) =>
          \A sym \in Symbols :
              /\ (InSeq(sym, config'.symbols) /\ ~InSeq(sym, config.symbols))
                    => SymbolAdded(sym)
              /\ (InSeq(sym, config.symbols) /\ ~InSeq(sym, config'.symbols))
                    => SymbolRemoved(sym)]_vars

\* ------------------------------------------------- change of the strategy
\* The step is a configuration update that changes active_strategy.
StrategyChanged ==
    /\ last_op'.name = "update_config"
    /\ config'.active_strategy # config.active_strategy

\* C28: after a configuration update that changes active_strategy the
\* SymbolState of every symbol equals a freshly initialised one, with only
\* subscription_id carried over.
C28_StrategyChangeResetsSymbols ==
    [][StrategyChanged =>
          \A sym \in DOMAIN symbol_data \cap DOMAIN symbol_data' :
              symbol_data'[sym] =
                  [NewSymbolData EXCEPT
                      !.subscription_id = symbol_data[sym].subscription_id]]_vars

\* ------------------------------------------- manual close from dashboard
\* app.handle_close_trade on the dashboard thread, which takes no lock:
\* _close_contract up to its test `contract_id in self.contracts`.  A known
\* contract leaves the thread before the write of last_close_attempt
\* (ws_pc.closing holds the id); an unknown one gets its sell at once.
CloseTradeTest ==
    /\ sock_connected /\ ws_pc.closing = None
    /\ \E cid \in 1..Len(broker) :
          IF Has(contracts, cid)
          THEN /\ Commit(Cur, Op("close_trade", cid), breach_day, broker)
               /\ ws_pc' = [ws_pc EXCEPT !.closing = cid]
          ELSE /\ Commit(_close_contract(Cur, cid), Op("close_trade", cid),
                         breach_day, broker)
               /\ ws_pc' = ws_pc
    /\ UNCHANGED <<file_config, evaluator, now, advances>>

\* The rest of _close_contract on the dashboard thread: the write
\* `self.contracts[contract_id]['last_close_attempt'] = ...` and the sell.
\* With the contract gone in between the write raises KeyError and the
\* handler ends there.
CloseTradeWrite ==
    /\ sock_connected /\ ws_pc.closing # None
    /\ IF Has(contracts, ws_pc.closing)
       THEN Commit(_close_contract(Cur, ws_pc.closing),
                   Op("close_trade_write", ws_pc.closing), breach_day, broker)
       ELSE Commit(Cur, Op("close_trade_error", ws_pc.closing), breach_day, broker)
    /\ ws_pc' = [ws_pc EXCEPT !.closing = None]
    /\ UNCHANGED <<file_config, evaluator, now, advances>>

InitManual == InitWith(TradeConfigs, {"engine"}, {DaySecs * 2}, {History})
NextManual ==
    \/ Advance({MinuteSecs})
    \/ Tick({"R_10"}, {Price(3)}, {Trending})
    \/ BuyAck
    \/ ContractUpdate({0}, BOOLEAN)
    \/ CloseTradeTest
    \/ CloseTradeWrite
SpecManual == InitManual /\ [][NextManual]_vars

\* C29: the accesses to the contracts map are serialized: while the
\* dashboard thread is between its read of contracts and its write to it,
\* the socket thread adds, rebuilds or deletes no contract.
C29_ContractsSerialized ==
    [][(ws_pc.closing # None /\ ws_pc'.closing # None) =>
          contracts' = contracts]_vars

\* ------------------------------------------------- age of the scorecard
\* C30: under strategies 5, 6 and 7 no Open intent is produced from a
\* screener scorecard whose last_update is more than 30 seconds old.
C30_NoIntentFromStaleScorecard ==
    [][\A n \in 1..Len(opens') :
          (/\ config.active_strategy \in {"strategy_5", "strategy_6", "strategy_7"}
           /\ opens'[n].symbol \in DOMAIN screener_data) =>
              now - screener_data[opens'[n].symbol].last_update <= 30]_vars

\* ------------------------------------------------ hourly cap of strategy 3
MaxHourAdvances == 6
HourlyConfigs == {Config("strategy_3", "tick"), Config("strategy_3", "candle_close")}
InitHourly == InitWith(HourlyConfigs, {"engine", "handler"}, {DaySecs * 2}, {History})
NextHourly ==
    \/ AdvanceWithin({MinuteSecs}, MaxHourAdvances)
    \/ Tick({"R_10"}, {Price(3)}, {Quiet})
    \/ Candles({"R_10"}, {STRATEGY_MAP.strategy_3.ltf_granularity},
               CandleShapes, {2}, {1})
SpecHourly == InitHourly /\ [][NextHourly]_vars

\* C31: under strategy 3 at most 4 Open intents are produced per symbol
\* within one UTC hour.
C31_FourOpensPerHour ==
    \A key \in DOMAIN open_count :
        config.active_strategy = "strategy_3" => open_count[key] <= 4

\* The cap has been reached within the hour: two intents have been produced
\* and the count of the symbol stands at 4.
C31_CapReached ==
    /\ config.active_strategy = "strategy_3"
    /\ \E sym \in DOMAIN symbol_data :
          /\ <<sym, now \div HourSecs>> \in DOMAIN open_count
          /\ open_count[<<sym, now \div HourSecs>>] >= 2
          /\ symbol_data[sym].hourly_trade_count >= 4
          /\ symbol_data[sym].last_trade_hour = HourOf(now)

\* ------------------------------------------ notifications of the evaluator
\* The tick of this step finds the in-progress LTF candle of its symbol over.
ClosesLtf ==
    /\ last_op'.name = "tick" /\ is_running
    /\ last_op'.on \in DOMAIN symbol_data
    /\ LET cur == symbol_data[last_op'.on].current_ltf_candle
       IN /\ cur # NoCandle
          /\ now >= cur.epoch + STRATEGY_MAP[config.active_strategy].ltf_granularity

\* The evaluator was called for the symbol with the given is_candle_close.
Evaluated(calls, symbol, is_candle_close) ==
    InSeq([symbol |-> symbol, is_candle_close |-> is_candle_close], calls)

\* C32: a tick that closes the in-progress LTF candle while the engine is
\* running calls the Strategy Evaluator with is_candle_close = true for that
\* symbol within the handling of that tick, whatever the entry type; with
\* entry type tick it is also called with is_candle_close = false.
C32_CandleCloseNotified ==
    [][ClosesLtf =>
          /\ Evaluated(evals', last_op'.on, TRUE)
          /\ config.entry_type = "tick" => Evaluated(evals', last_op'.on, FALSE)]_vars

\* ------------------------------------------------ ticks of unknown symbols
StrayConfigs == {Config("strategy_1", "tick"), Config("strategy_2", "tick")}
InitStray == InitWith(StrayConfigs, {"engine"}, {DaySecs * 2}, {History})
NextStray ==
    \/ Advance({HourSecs, DaySecs})
    \/ Balance({StartBalance, StartBalance + Stake})
    \/ Tick(Symbols, {Price(3)}, {Quiet})
SpecStray == InitStray /\ [][NextStray]_vars

\* C33: a tick of a symbol that has no SymbolState changes no engine state,
\* daily_start_balance and last_balance_reset_date included, and sends no
\* frame.
C33_StrayTickDropped ==
    [][(last_op'.name = "tick" /\ last_op'.on \notin DOMAIN symbol_data) =>
          (engine_vars' = engine_vars /\ sent' = << >>)]_vars


\* ------------------------------------------- target prices of multipliers
Multipliers == {10, 30}
TargetConfigs ==
    {[ConfigOf(s, "multiplier") EXCEPT !.use_fixed_balance = f,
                                       !.tp_value = 50, !.sl_value = 50] :
        s \in {"strategy_2", "strategy_5"}, f \in BOOLEAN}
\* The account holds a multiplier contract the broker reports to every
\* subscriber of proposal_open_contract (on_open, line 205).
HeldId == MaxContracts + 1
HeldMsg(ctype, multiplier) ==
    [ contract_id |-> HeldId, underlying |-> "R_10", is_sold |-> FALSE,
      contract_type |-> ctype, profit |-> 0, entry_tick |-> Price(3),
      buy_price |-> Stake, purchase_time |-> now, date_expiry |-> None,
      multiplier |-> multiplier ]
HeldUpdate(ctypes, multipliers) ==
    /\ Idle /\ sock_connected
    /\ \E ctype \in ctypes, multiplier \in multipliers :
          LET m == HeldMsg(ctype, multiplier)
          IN Commit(_handle_contract_update(Cur, m), Op("contract_update", m),
                    breach_day, broker)
    /\ UNCHANGED <<file_config, evaluator, now, advances, ws_pc>>
InitTargets == InitWith(TargetConfigs, {"engine"}, {DaySecs * 2}, {History})
NextTargets ==
    \/ Advance({MinuteSecs})
    \/ ScreenerUpdate({"R_10"}, {Metrics, Scorecard})
    \/ Balance({StartBalance, StartBalance + Stake})
    \/ HeldUpdate({"MULTUP", "MULTDOWN"}, Multipliers)
SpecTargets == InitTargets /\ [][NextTargets]_vars

\* The threshold in USD the configuration asks for.
UsdOf(value, stake) ==
    IF config.use_fixed_balance THEN value ELSE (stake * value) \div 100
\* profit = (price - entry) / entry * multiplier * stake, cleared of the
\* division.
ProfitIs(c, price, usd) ==
    (price - c.entry_price) * c.multiplier * c.stake = usd * c.entry_price
\* The step is the first update of a multiplier contract, its entry known.
Entered ==
    /\ last_op'.name = "contract_update"
    /\ Truthy(last_op'.on.multiplier) /\ Truthy(last_op'.on.entry_tick)
    /\ ~Has(contracts, last_op'.on.contract_id)
    /\ Has(contracts', last_op'.on.contract_id)
    /\ config.tp_value > 0 /\ config.sl_value > 0

\* C34: at entry the target prices of a multiplier contract solve
\* profit = (price - entry) / entry * multiplier * stake for the configured
\* take-profit and stop-loss thresholds, under every strategy; a long's
\* tp_price is above its entry and its sl_price below.
C34_TargetsSolveProfit ==
    [][Entered =>
          LET c == At(contracts', last_op'.on.contract_id)
              sign == IF c.side = "long" THEN 1 ELSE -1
          IN /\ Truthy(c.tp_price) /\ Truthy(c.sl_price)
             /\ ProfitIs(c, c.tp_price, sign * UsdOf(config.tp_value, c.stake))
             /\ ProfitIs(c, c.sl_price, (-sign) * UsdOf(config.sl_value, c.stake))
             /\ c.side = "long" =>
                   c.tp_price > c.entry_price /\ c.sl_price < c.entry_price]_vars


\* ------------------------------------------------- free-ride of multipliers
RideConfigs == {ConfigOf("strategy_5", "multiplier"),
                ConfigOf("strategy_7", "multiplier")}
\* The hourly frame is ready and its ATR is 20 or 10 points.
Riding == [Quiet EXCEPT !.ta_ready = TRUE, !.atr_1h = 20]
Calmer == [Quiet EXCEPT !.ta_ready = TRUE, !.atr_1h = 10]
InitRide == InitWith(RideConfigs, {"engine"}, {DaySecs * 2}, {History})
NextRide ==
    \/ Advance({MinuteSecs})
    \/ Tick({"R_10"}, {Price(3), Price(4)}, {Quiet, Riding, Calmer})
    \/ HeldUpdate({"MULTUP", "MULTDOWN"}, {10})
SpecRide == InitRide /\ [][NextRide]_vars

\* C35: a multiplier contract that has entered free-ride stays in free-ride,
\* its stop where the free-ride put it, as long as it is in the contract map,
\* whatever ContractUpdate arrives.
C35_FreeRideKept ==
    [][\A i \in 1..Len(contracts) :
          (Get(contracts[i].is_freeride) = 1 /\ Has(contracts', contracts[i].id)) =>
             LET c == At(contracts', contracts[i].id)
             IN Get(c.is_freeride) = 1 /\ c.sl_price = contracts[i].sl_price]_vars


\* ------------------------------------------------- the open-trades report
\* TradingBotEngine._emit_updates: the open_trades list it builds; it raises
\* KeyError when a contract entry lacks a key it subscripts.
_emit_updates(cs) ==
    IF \E i \in 1..Len(cs) :
          \/ cs[i].entry_price = Missing \/ cs[i].stake = Missing
          \/ cs[i].pnl = Missing \/ cs[i].expiry_time = Missing
    THEN [raised |-> "KeyError", open_trades |-> << >>]
    ELSE [raised |-> "",
          open_trades |->
            [i \in 1..Len(cs) |->
               [ id |-> cs[i].id, symbol |-> cs[i].symbol,
                 entry_spot_price |-> cs[i].entry_price, stake |-> cs[i].stake,
                 pnl |-> cs[i].pnl, expiry_time |-> cs[i].expiry_time,
                 status |-> cs[i].status,
                 is_freeride |-> Get(cs[i].is_freeride) = 1 ]]]

InitEmit == InitWith(TradeConfigs, {"engine"}, {DaySecs * 2}, {History})
NextEmit ==
    \/ Advance({180})
    \/ Tick({"R_10"}, {Price(3)}, {Trending})
    \/ BuyAck
    \/ ContractUpdate({0}, {FALSE, TRUE})
    \/ Balance({StartBalance, StartBalance + Stake})
SpecEmit == InitEmit /\ [][NextEmit]_vars

\* C36: _emit_updates never fails: at every Balance event each entry of the
\* contract map has all the fields it reads, an entry that a BuyAck has just
\* created included.
C36_EmitNeverFails ==
    [][last_op'.name = "balance" => _emit_updates(contracts').raised = ""]_vars


\* C37: is_closing of a contract is monotonic: once set it is never cleared
\* while the contract stays in the map, in whatever order the BuyAck and
\* the ContractUpdates of the contract arrive.
C37_ClosingMonotonic ==
    [][\A i \in 1..Len(contracts) :
          (contracts[i].is_closing /\ Has(contracts', contracts[i].id)) =>
             At(contracts', contracts[i].id).is_closing]_vars


\* C38: at all times wins_count + losses_count = total_trades_count and
\* net_trade_profit = total_trade_profit - total_trade_loss.
C38_StatsConsistent ==
    /\ stats.wins_count + stats.losses_count = stats.total_trades_count
    /\ stats.net_trade_profit = stats.total_trade_profit - stats.total_trade_loss

\* A won and a lost contract have both been counted.
C38_WonAndLost ==
    /\ stats.wins_count >= 1 /\ stats.losses_count >= 1
    /\ stats.total_trade_profit > 0 /\ stats.total_trade_loss > 0
    /\ last_op.name = "contract_update" /\ last_op.on.is_sold


\* ------------------------------------------------- restart after stop_bot
\* start(), lines 2449-2454: is_running is set and, the screener thread
\* being dead, a new one is created and started.
StartSpawn ==
    /\ Idle /\ ~is_running /\ ~ws_pc.starting
    /\ Truthy(config.deriv_api_token)
    /\ Commit([Cur EXCEPT !.is_running = TRUE], Op("start_spawn", None),
              breach_day, broker)
    /\ ws_pc' = [ws_pc EXCEPT !.starting = TRUE,
                              !.screener = IF @ = "dead" THEN "spawned" ELSE @]
    /\ UNCHANGED <<file_config, evaluator, now, advances>>

\* start(), lines 2456 to the end: the socket thread, the stop event, the
\* subscriptions.
StartSocket ==
    /\ Idle /\ ws_pc.starting
    /\ Commit(start(Cur, FALSE), Op("start", None), breach_day, broker)
    /\ ws_pc' = [ws_pc EXCEPT !.starting = FALSE,
                              !.loop = IF ws_thread_alive THEN @ ELSE "top"]
    /\ UNCHANGED <<file_config, evaluator, now, advances>>

\* _background_screener_loop, lines 1142, 1148, 1153, 1160: the thread tests
\* the stop event; set, it leaves the loop and ends.
ScreenerTest ==
    /\ \/ ws_pc.screener = "spawned"
       \/ ws_pc.screener = "running" /\ stop_event
    /\ Commit(Cur, Op("screener_test", stop_event), breach_day, broker)
    /\ ws_pc' = [ws_pc EXCEPT !.screener = IF stop_event THEN "dead" ELSE "running"]
    /\ UNCHANGED <<file_config, evaluator, now, advances>>

InitRestart == InitWith(SessionConfigs, {"engine"}, {DaySecs * 2}, {History})
NextRestart ==
    \/ StopBot \/ Stop
    \/ StartSpawn \/ StartSocket \/ ScreenerTest
    \/ LoopReturn \/ LoopCheck \/ LoopConnect
    \/ Authorized({StartBalance})
    \/ Tick({"R_10"}, {Price(3)}, {Quiet})
SpecRestart == InitRestart /\ [][NextRestart]_vars

\* C39: a start() after stop_bot() brings both loops back: when start()
\* returns the stop event is clear and the socket thread is alive, and the
\* screener thread it has started never finds the stop event set, however
\* the start-up of that thread interleaves with the clearing of the event.
C39_RestartRunsBoth ==
    [][/\ last_op'.name = "start" => (~stop_event' /\ ws_thread_alive')
       /\ ws_pc.screener = "spawned" => ws_pc'.screener # "dead"]_vars


\* ------------------------------------------------ crossings of the daily open
MaxCrosses == 5
CrossConfigs == {Config("strategy_1", "tick")}
InitCross == InitWith(CrossConfigs, {"engine", "handler"}, {DaySecs * 2}, {History})
\* Ticks on either side of the daily open, up to MaxCrosses crossings.
CrossTick ==
    /\ Tick({"R_10"}, {Price(1), Price(3)}, {Quiet})
    /\ symbol_data'["R_10"].daily_crosses <= MaxCrosses
NextCross ==
    \/ Advance({HourSecs, DaySecs})
    \/ CrossTick
    \/ Candles({"R_10"}, {DaySecs}, CandleShapes, {2}, {0})
SpecCross == InitCross /\ [][NextCross]_vars

\* C40: daily_crosses counts the crossings of one UTC day: the first tick of
\* a later date starts it again from 0, so that after this tick it holds at
\* most the crossing the tick itself has made, and the whipsaw abort of one
\* day (daily_crosses > 3) does not last into the next.
C40_CrossesResetDaily ==
    [][(/\ last_op'.name = "tick"
        /\ last_op'.on \in DOMAIN symbol_data
        /\ DateOf(now) > last_balance_reset_date) =>
          symbol_data'[last_op'.on].daily_crosses <= 1]_vars

====
